---------------------------- MODULE Spec2Model ----------------------------
(***************************************************************************)
(* A model of the Korp backend authorization plugins:                      *)
(*   - the permission resolver of the authorization server                 *)
(*     (src/auth/auth.py, _is_academic and _get_permitted_resources);      *)
(*   - the protected-corpora database plugin                               *)
(*     (src/korpplugins/protectedcorporadb/__init__.py).                   *)
(*                                                                         *)
(* Python strings are sequences of one-character strings, so that          *)
(* endswith, rpartition, split, the "in" operator, upper and the           *)
(* %-formatting of the SQL text are computed as the code computes them.    *)
(* The fixed fragments of the SQL text, which contain neither a            *)
(* conversion specifier nor an unbalanced quote, are single elements       *)
(* (atoms) of such a sequence.                                             *)
(***************************************************************************)
EXTENDS Integers, Sequences, FiniteSets, TLC

VARIABLES
    authDb,       \* the authorization database read by auth.py
    authReq,      \* arguments of the last _get_permitted_resources call
    authRes,      \* what that call produced
    connection,   \* ProtectedCorporaDatabase._connection (0 models None)
    openConns,    \* the connections open at the database server
    connects,     \* number of MySQLdb.connect calls that succeeded so far
    persistent,   \* pluginconf.PERSISTENT_DB_CONNECTION
    pcReq,        \* arguments and store behaviour of the last
                  \* filter_protected_corpora call
    pcRes,        \* what that call produced
    idemReq,      \* the arguments of a repeated _get_permitted_resources call
    idemRes1,     \* what the first of the two calls produced
    idemRes2,     \* what the second of the two calls produced
    shibEnv,      \* request.environ and request.headers of a request
    shibIn,       \* the postdata passed to filter_auth_postdata
    shibOut,      \* what filter_auth_postdata returned, and its resolution
    threads,      \* the concurrent callers of filter_protected_corpora
    requests,     \* the requests in flight in one backend process
    loggers,      \* KorpLogger._loggers
    logdata,      \* KorpLogger._logdata
    usernames,    \* ShibbolethAuthorizer._username
    payload,      \* a request of the authorization server and its response
    pipeline,     \* the plugins of a mount point and the value they filter
    levels,       \* the loggers of KorpLogger and the messages they emit
    conf,         \* the configuration of ProtectedCorporaDatabase
    authLog       \* the root logger of auth.py and the requests writing to it

authVars == <<authDb, authReq, authRes>>
pcVars == <<connection, openConns, connects, persistent, pcReq, pcRes>>
idemVars == <<idemReq, idemRes1, idemRes2>>
shibVars == <<shibEnv, shibIn, shibOut>>
concVars == <<threads>>
reqVars == <<requests, loggers, logdata, usernames>>
restVars == <<payload, pipeline, levels, conf, authLog>>
vars == <<authDb, authReq, authRes,
          connection, openConns, connects, persistent, pcReq, pcRes,
          idemReq, idemRes1, idemRes2, shibEnv, shibIn, shibOut,
          threads, requests, loggers, logdata, usernames,
          payload, pipeline, levels, conf, authLog>>

-----------------------------------------------------------------------------
(* Bounds of the model *)

\* Number of pieces concatenated to make an entitlement string
MaxEntPieces == 2

\* Number of database connections a run may establish
MaxConnects == 4

-----------------------------------------------------------------------------
(* String constants of src/auth/auth.py *)

CLARIN_SUFFIX == <<"@", "c", "l", "a", "r", "i", "n", ".", "e", "u">>
CLARIN_FI_SUFFIX ==
    <<".", "f", "i", "@", "c", "l", "a", "r", "i", "n", ".", "e", "u">>
ACADEMIC_URN ==
    <<"h", "t", "t", "p", ":", "/", "/", "w", "w", "w", ".", "c", "l", "a",
      "r", "i", "n", ".", "e", "u", "/", "e", "n", "t", "i", "t", "l", "e",
      "m", "e", "n", "t", "/", "a", "c", "a", "d", "e", "m", "i", "c">>
LBR_URN ==
    <<"u", "r", "n", ":", "n", "b", "n", ":", "f", "i", ":", "l", "b", "-",
      "2", "0", "1", "6", "1", "1", "0", "7", "1", "0">>
aca_affiliation_values ==
    { <<"m", "e", "m", "b", "e", "r">>,
      <<"e", "m", "p", "l", "o", "y", "e", "e">>,
      <<"s", "t", "u", "d", "e", "n", "t">>,
      <<"f", "a", "c", "u", "l", "t", "y">>,
      <<"s", "t", "a", "f", "f">> }
FI == <<"f", "i">>

-----------------------------------------------------------------------------
(* Python string operations *)

\* str.endswith
EndsWith(s, suffix) ==
    /\ Len(s) >= Len(suffix)
    /\ SubSeq(s, Len(s) - Len(suffix) + 1, Len(s)) = suffix

\* "sub in s" for strings: substring containment
Contains(s, sub) ==
    \E i \in 1..(Len(s) - Len(sub) + 1) : SubSeq(s, i, i + Len(sub) - 1) = sub

\* "x in t" for a tuple: membership of an element
InTuple(x, t) == \E i \in 1..Len(t) : t[i] = x

\* s.rpartition(sep)[-1]: what follows the last sep, or s when there is none
RPartitionLast(s, sep) ==
    LET idx == {i \in 1..Len(s) : s[i] = sep}
        last == IF idx = {} THEN 0 ELSE CHOOSE i \in idx : \A j \in idx : j <= i
    IN SubSeq(s, last + 1, Len(s))

\* s.split(sep) for a one-character sep
RECURSIVE Split(_, _)
Split(s, sep) ==
    IF \A i \in 1..Len(s) : s[i] # sep
    THEN <<s>>
    ELSE LET i == CHOOSE k \in 1..Len(s) :
                      s[k] = sep /\ \A j \in 1..(k - 1) : s[j] # sep
         IN <<SubSeq(s, 1, i - 1)>> \o Split(SubSeq(s, i + 1, Len(s)), sep)

\* filter(None, seq): drop the empty strings
FilterNone(seq) == SelectSeq(seq, LAMBDA x : x # <<>>)

LowerChars == <<"a", "b", "c", "d", "e", "f", "g", "h", "i", "j", "k", "l", "m",
                "n", "o", "p", "q", "r", "s", "t", "u", "v", "w", "x", "y", "z">>
UpperChars == <<"A", "B", "C", "D", "E", "F", "G", "H", "I", "J", "K", "L", "M",
                "N", "O", "P", "Q", "R", "S", "T", "U", "V", "W", "X", "Y", "Z">>

UpperChar(c) ==
    IF \E i \in 1..Len(LowerChars) : LowerChars[i] = c
    THEN UpperChars[CHOOSE i \in 1..Len(LowerChars) : LowerChars[i] = c]
    ELSE c

\* str.upper
Upper(s) == [i \in 1..Len(s) |-> UpperChar(s[i])]

\* sep.join(list)
RECURSIVE Join(_, _)
Join(sep, list) ==
    IF list = <<>> THEN <<>>
    ELSE IF Len(list) = 1 THEN list[1]
    ELSE list[1] \o sep \o Join(sep, Tail(list))

\* The elements of a finite set of integers in increasing order
RECURSIVE Sorted(_)
Sorted(S) ==
    IF S = {} THEN <<>>
    ELSE LET m == CHOOSE x \in S : \A y \in S : x <= y
         IN <<m>> \o Sorted(S \ {m})

\* The number of "%" that immediately precede position i of t
PercentsBefore(t, i) ==
    LET from == {j \in 1..i : \A k \in j..(i - 1) : t[k] = "%"}
    IN i - (CHOOSE j \in from : \A k \in from : j <= k)

\* The positions of t at which the % operator reads a conversion specifier:
\* each "%" that is not itself the second character of one
SpecStarts(t) ==
    {i \in 1..Len(t) : t[i] = "%" /\ PercentsBefore(t, i) % 2 = 0}

\* template % args for a tuple args whose elements are strings, read from
\* left to right as CPython does: "%" at the end is an incomplete format
\* (ValueError), "%%" is a "%", any other specifier first takes the next
\* argument (TypeError when none is left) and then converts it, "s" being
\* the only conversion character that follows a "%" in the texts of this
\* model (no flag, width or precision does); arguments left over at the
\* end are a TypeError.
RECURSIVE FormatFrom(_, _, _, _, _, _, _)
FormatFrom(template, specs, j, pos, args, k, out) ==
    IF j > Len(specs)
    THEN IF k <= Len(args)
         THEN [ok |-> FALSE, error |-> "TypeError", text |-> <<>>]
         ELSE [ok |-> TRUE, error |-> "",
               text |-> out \o SubSeq(template, pos, Len(template))]
    ELSE
    LET i == specs[j]
        before == out \o SubSeq(template, pos, i - 1)
    IN
    IF i = Len(template)
    THEN [ok |-> FALSE, error |-> "ValueError", text |-> <<>>]
    ELSE IF template[i + 1] = "%"
    THEN FormatFrom(template, specs, j + 1, i + 2, args, k, Append(before, "%"))
    ELSE IF k > Len(args)
    THEN [ok |-> FALSE, error |-> "TypeError", text |-> <<>>]
    ELSE IF template[i + 1] = "s"
    THEN FormatFrom(template, specs, j + 1, i + 2, args, k + 1,
                    before \o args[k])
    ELSE [ok |-> FALSE, error |-> "ValueError", text |-> <<>>]

Format(template, args) ==
    FormatFrom(template, Sorted(SpecStarts(template)), 1, 1, args, 1, <<>>)

\* str(b) for a bool, as %s renders it
BoolStr(b) == IF b THEN <<"True">> ELSE <<"False">>


\* Some order of the elements of a finite set (the order of a result set and
\* of a list built from one is no contract)
RECURSIVE SetToSeq(_)
SetToSeq(S) ==
    IF S = {} THEN <<>>
    ELSE LET x == CHOOSE y \in S : TRUE IN <<x>> \o SetToSeq(S \ {x})

Range(seq) == {seq[i] : i \in 1..Len(seq)}

-----------------------------------------------------------------------------
(* The authorization database, as the SQL of auth.py reads it *)

\* The fixed fragments of the permission query (auth.py, lines 166-175)
SQL_LICENSE == "select corpus from auth_license where "
SQL_ACA == " = True and (license = 'ACA' or (license = 'ACA-Fi' and "
SQL_ALLOW == " = 'fi')) union distinct select corpus from auth_allow where person = "
SQL_LBR == " union distinct select corpus from auth_lbr_map where lbr_id IN ("
SQL_END == "); "
SQL_ACADEMIC == "select 1 from auth_academic where person = %s"

\* The SQL text of lines 166-175 before any value is filled in
SqlTemplate ==
    <<SQL_LICENSE, "%", "s", SQL_ACA, "'", "%", "s", "'",
      SQL_ALLOW, "'", "%", "s", "'", SQL_LBR, "%", "s", SQL_END>>

\* Comparison of two strings by the collation of the database columns:
\* case-insensitive (the MySQL default collations) or binary
SqlEq(db, a, b) == IF db.ci THEN Upper(a) = Upper(b) ELSE a = b

\* The rows left by "union distinct": one row per class of equal values
Distinct(db, S) ==
    {c \in S : c = CHOOSE d \in S : SqlEq(db, d, c)}

\* The server's lexical analysis of a statement, from quote to quote: the
\* string literals (delimited by quotes, with '' for a quote inside one)
\* and the stretches of text between them, alternating, a stretch first and
\* last.  A statement that ends inside a literal has no analysis.
RECURSIVE LexFrom(_, _, _, _, _, _, _)
LexFrom(text, quotes, j, pos, inLit, cur, out) ==
    IF j > Len(quotes)
    THEN IF inLit THEN [ok |-> FALSE, toks |-> <<>>]
         ELSE [ok |-> TRUE,
               toks |-> Append(out, [lit |-> FALSE,
                                     v |-> SubSeq(text, pos, Len(text))])]
    ELSE
    LET q == quotes[j] IN
    IF ~inLit
    THEN LexFrom(text, quotes, j + 1, q + 1, TRUE, <<>>,
                 Append(out, [lit |-> FALSE, v |-> SubSeq(text, pos, q - 1)]))
    ELSE IF j < Len(quotes) /\ quotes[j + 1] = q + 1
    THEN LexFrom(text, quotes, j + 2, q + 2, TRUE,
                 cur \o SubSeq(text, pos, q - 1) \o <<"'">>, out)
    ELSE LexFrom(text, quotes, j + 1, q + 1, FALSE, <<>>,
                 Append(out, [lit |-> TRUE, v |-> cur \o SubSeq(text, pos, q - 1)]))

Lex(text) ==
    LexFrom(text, Sorted({i \in 1..Len(text) : text[i] = "'"}), 1, 1,
            FALSE, <<>>, <<>>)

Text(v) == [lit |-> FALSE, v |-> v]

\* Whether the tokens of a statement are those of the permission query as
\* written in auth.py: the three selects with one literal each for the top
\* domain and the person and a list of literals for lbr_id
HasQueryShape(toks) ==
    LET n == Len(toks) IN
    /\ n >= 7
    /\ toks[1] \in {Text(<<SQL_LICENSE, "True", SQL_ACA>>),
                    Text(<<SQL_LICENSE, "False", SQL_ACA>>)}
    /\ toks[2].lit
    /\ toks[3] = Text(<<SQL_ALLOW>>)
    /\ toks[4].lit
    /\ toks[5] = Text(<<SQL_LBR>>)
    /\ toks[n] = Text(<<SQL_END>>)
    /\ \A j \in 6..(n - 1) :
          IF j % 2 = 0 THEN toks[j].lit ELSE toks[j] = Text(<<",", " ">>)

\* The rows the three selects of the permission query yield for the values
\* the server reads in the statement
SelectPermitted(db, academic, top_domain, person, lbr_ids) ==
    {r.corpus : r \in {x \in db.auth_license :
                          /\ academic
                          /\ \/ x.license = "ACA"
                             \/ x.license = "ACA-Fi" /\ SqlEq(db, top_domain, FI)}}
    \cup {r.corpus : r \in {x \in db.auth_allow : SqlEq(db, x.person, person)}}
    \cup {r.corpus : r \in {x \in db.auth_lbr_map :
                               \E i \in 1..Len(lbr_ids) :
                                   SqlEq(db, x.lbr_id, lbr_ids[i])}}

AllCorpora(db) ==
    {r.corpus : r \in db.auth_license} \cup {r.corpus : r \in db.auth_allow}
    \cup {r.corpus : r \in db.auth_lbr_map}

\* cursor.execute(sql) of line 182 at the server: the possible outcomes.  A
\* statement with an unterminated literal is a syntax error; a statement
\* whose quotes are balanced but which is no longer the query of auth.py
\* (a value closed its literal) is whatever statement the values spell: a
\* syntax error, or a select of any of the corpora of the database.
ExecutePermissionQuery(db, text) ==
    LET lx == Lex(text) IN
    IF ~lx.ok
    THEN {[raised |-> TRUE, error |-> "ProgrammingError", rows |-> <<>>]}
    ELSE IF HasQueryShape(lx.toks)
    THEN LET toks == lx.toks
             ids == [k \in 1..((Len(toks) - 5) \div 2) |-> toks[4 + 2 * k].v]
         IN {[raised |-> FALSE, error |-> "",
              rows |-> SetToSeq(Distinct(db,
                          SelectPermitted(db, toks[1].v[2] = "True",
                                          toks[2].v, toks[4].v, ids)))]}
    ELSE {[raised |-> TRUE, error |-> "ProgrammingError", rows |-> <<>>]}
         \cup {[raised |-> FALSE, error |-> "", rows |-> SetToSeq(S)] :
                  S \in SUBSET AllCorpora(db)}

-----------------------------------------------------------------------------
(* src/auth/auth.py: the permission resolver *)

\* TokenizeEntitlement without the split: the whole string as one token
TokenizeEntitlement_NoSplit(entitlement) ==
    IF entitlement # <<>> THEN <<entitlement>> ELSE <<>>

\* Lines 133-137: the entitlement string as a tuple of its non-empty tokens
TokenizeEntitlement(entitlement) ==
    IF entitlement # <<>>
    THEN FilterNone(Split(entitlement \o <<";">>, ";"))
    ELSE <<>>

\* IsAcademic without the test "not clarin" of line 103
IsAcademic_AnyUserAffiliation(affiliation, entitlement, clarin) ==
    \/ \E key \in aca_affiliation_values : Contains(affiliation, key)
    \/ /\ clarin
       /\ InTuple(ACADEMIC_URN, entitlement)
    \/ InTuple(LBR_URN, entitlement)

\* _is_academic (lines 97-113); entitlement is the tuple of tokens
IsAcademic(affiliation, entitlement, clarin) ==
    \/ /\ ~clarin
       /\ \E key \in aca_affiliation_values : Contains(affiliation, key)
    \/ /\ clarin
       /\ InTuple(ACADEMIC_URN, entitlement)
    \/ InTuple(LBR_URN, entitlement)

\* TopDomainOverride without the override
TopDomainOverride_Never(top_domain, academic, clarin_fi) == top_domain

\* Lines 144-145
TopDomainOverride(top_domain, academic, clarin_fi) ==
    IF academic /\ clarin_fi THEN FI ELSE top_domain

\* AcademicLookup taking a failed lookup for a username not found
AcademicLookup_FailureIsMiss(db, username, down) ==
    [raised |-> FALSE,
     found |-> /\ down # "lookup"
               /\ \E p \in db.auth_academic : SqlEq(db, p, username)]

\* Lines 151-156: the lookup in auth_academic, the username bound as a
\* parameter of the statement.  down is the store operation that is
\* unavailable in this call, if any.
AcademicLookup(db, username, down) ==
    IF down = "lookup"
    THEN [raised |-> TRUE, found |-> FALSE]
    ELSE [raised |-> FALSE, found |-> \E p \in db.auth_academic : SqlEq(db, p, username)]

\* Lines 161-163
InParameters(entitlement) ==
    LET joined == Join(<<",", " ">>,
                       [i \in 1..Len(entitlement) |-> <<"'", "%", "s", "'">>])
    IN IF joined = <<>> THEN <<"'", "'">> ELSE joined

\* Lines 166-179: the statement, the values filled in by the two % operations
BuildSql(academic, top_domain, username, entitlement) ==
    LET first == Format(SqlTemplate,
                        <<BoolStr(academic), top_domain, username,
                          InParameters(entitlement)>>)
    IN IF ~first.ok THEN first ELSE Format(first.text, entitlement)

NoResult ==
    [outcome |-> "return", error |-> "", authenticated |-> FALSE,
     corpora |-> <<>>, cursor |-> FALSE, calls |-> <<>>, tokens |-> <<>>,
     academic0 |-> FALSE, academic |-> FALSE, top_domain |-> <<>>]

Raise(r, error) == [r EXCEPT !.outcome = "raise", !.error = error]

\* Lines 127-186: the possible results for a username that passed the test
\* of line 124.  calls lists the statements executed on the cursor.
ResolveUser(username, affiliation, entitlement, db, down) ==
    IF down = "connect"
    THEN {Raise(NoResult, "OperationalError")}
    ELSE
    LET clarin == EndsWith(username, CLARIN_SUFFIX)
        clarin_fi == EndsWith(username, CLARIN_FI_SUFFIX)
        tokens == TokenizeEntitlement(entitlement)
        academic0 == IsAcademic(affiliation, tokens, clarin)
        top_domain == TopDomainOverride(RPartitionLast(username, "."),
                                        academic0, clarin_fi)
        lookup == AcademicLookup(db, username, down)
        lookupCall == [kind |-> "lookup", text |-> <<SQL_ACADEMIC>>,
                       params |-> <<username>>]
        calls1 == IF academic0 THEN <<>> ELSE <<lookupCall>>
        r1 == [NoResult EXCEPT !.cursor = TRUE, !.tokens = tokens,
                               !.academic0 = academic0, !.academic = academic0,
                               !.top_domain = top_domain, !.calls = calls1]
    IN
    IF ~academic0 /\ lookup.raised
    THEN {Raise(r1, "OperationalError")}
    ELSE
    LET academic == academic0 \/ lookup.found
        sql == BuildSql(academic, top_domain, username, tokens)
        r2 == [r1 EXCEPT !.academic = academic]
    IN
    IF ~sql.ok
    THEN {Raise(r2, sql.error)}
    ELSE
    LET r3 == [r2 EXCEPT !.calls = Append(calls1,
                   [kind |-> "query", text |-> sql.text, params |-> <<>>])]
    IN
    IF down = "query"
    THEN {Raise(r3, "OperationalError")}
    ELSE {IF x.raised
          THEN Raise(r3, x.error)
          ELSE [r3 EXCEPT !.authenticated = TRUE,
                          !.corpora = [i \in 1..Len(x.rows) |-> Upper(x.rows[i])]]
          : x \in ExecutePermissionQuery(db, sql.text)}

\* GetPermittedResources without the test of line 124
GetPermittedResources_NoEmptyTest(username, affiliation, entitlement, db, down) ==
    ResolveUser(username, affiliation, entitlement, db, down)

\* _get_permitted_resources (lines 116-186)
GetPermittedResources(username, affiliation, entitlement, db, down) ==
    IF username = <<>>
    THEN {NoResult}
    ELSE ResolveUser(username, affiliation, entitlement, db, down)

-----------------------------------------------------------------------------
(* The inputs of the resolver *)

LocalParts == { <<"a">>, <<"b">> }

Domains ==
    { <<"@", "e", "x", ".", "e", "d", "u">>,
      <<"@", "u", "n", "i", ".", "f", "i">>,
      CLARIN_SUFFIX,
      CLARIN_FI_SUFFIX }

\* Usernames with a conversion specifier and with quotes in them
OddUsernames ==
    { <<"a", "%", "s", "@", "e", "x", ".", "e", "d", "u">>,
      <<"'", " ", "o", "r", " ", "'", "'", "=", "'">> }

Usernames ==
    {<<>>} \cup {l \o d : l \in LocalParts, d \in Domains} \cup OddUsernames

Affiliations ==
    { <<>>,
      <<"f", "a", "c", "u", "l", "t", "y">>,
      <<"n", "o", "n", "-", "m", "e", "m", "b", "e", "r">>,
      <<"a", "l", "u", "m">> }

LBR_ID_1 == <<"u", "1">>

EntPieces == { <<";">>, ACADEMIC_URN, LBR_URN, LBR_ID_1, <<"'">> }

RECURSIVE Concats(_, _)
Concats(pieces, n) ==
    IF n = 0 THEN {<<>>}
    ELSE LET shorter == Concats(pieces, n - 1)
         IN shorter \cup {p \o s : p \in pieces, s \in shorter}

Entitlements == Concats(EntPieces, MaxEntPieces)

\* The store operation that is unavailable during a call
Down == {"none", "connect", "lookup", "query"}

\* Two contents of the database: one whose corpus identifiers all differ
\* also when upper-cased, one that holds a corpus under two spellings
Databases ==
    LET aEdu == <<"a", "@", "e", "x", ".", "e", "d", "u">>
        bEdu == <<"b", "@", "e", "x", ".", "e", "d", "u">>
        bFiClarin == <<"b">> \o CLARIN_FI_SUFFIX
        license == {[corpus |-> <<"c", "1">>, license |-> "ACA"],
                    [corpus |-> <<"c", "2">>, license |-> "ACA-Fi"],
                    [corpus |-> <<"c", "3">>, license |-> "RES"]}
        lbr == {[lbr_id |-> LBR_ID_1, corpus |-> <<"c", "4">>]}
        academic == {bEdu, bFiClarin}
    IN {[auth_license |-> license,
         auth_allow |-> {[person |-> aEdu, corpus |-> spelling],
                         [person |-> bEdu, corpus |-> <<"c", "3">>]},
         auth_lbr_map |-> lbr,
         auth_academic |-> academic,
         ci |-> ci] : spelling \in {<<"c", "5">>, <<"C", "1">>},
                      ci \in BOOLEAN}

-----------------------------------------------------------------------------
(* src/korpplugins/protectedcorporadb/__init__.py *)

\* The exception classes of MySQLdb and of Python that a fetch or a connect
\* can raise, each with the classes it is an instance of
Superclasses(class) ==
    CASE class = "OperationalError" ->
             {"OperationalError", "DatabaseError", "Error", "MySQLError"}
      [] class = "ProgrammingError" ->
             {"ProgrammingError", "DatabaseError", "Error", "MySQLError"}
      [] class = "InterfaceError" -> {"InterfaceError", "Error", "MySQLError"}
      [] class = "AttributeError" -> {"AttributeError"}
      [] class = "ValueError" -> {"ValueError"}
      [] OTHER -> {class}

\* Lines 71-76
connection_errors ==
    {"AttributeError", "MySQLError", "InterfaceError", "DatabaseError"}

\* What can go wrong in db_fetch (lines 78-81), and the exception it raises:
\* the server has closed the connection, the interface to it is broken, the
\* statement is malformed or names a table or column that does not exist,
\* the database user may not select from the table, a row has more than
\* the one column "corpus, in cursor" unpacks
FetchFailures ==
    {"server_gone", "interface", "malformed_query", "access_denied", "row_shape"}

ExceptionOf(cause) ==
    CASE cause = "server_gone" -> "OperationalError"
      [] cause = "interface" -> "InterfaceError"
      [] cause = "malformed_query" -> "ProgrammingError"
      [] cause = "access_denied" -> "OperationalError"
      [] cause = "row_shape" -> "ValueError"
      [] OTHER -> "none"

\* Caught with AttributeError alone in the except clause
Caught_AttributeErrorOnly(cause) == ExceptionOf(cause) = "AttributeError"

\* "except connection_errors" (lines 86 and 93)
Caught(cause) == Superclasses(ExceptionOf(cause)) \cap connection_errors # {}

\* _disconnect (lines 102-109) of the plugin in state st: the handle, the
\* connections open at the server, the count of connections made
Disconnect(st) ==
    IF st.connection # 0
    THEN [st EXCEPT !.openConns = @ \ {st.connection}, !.connection = 0]
    ELSE st

\* Connect without the test of line 122: a connection is made whether or
\* not one is held
Connect_WithoutNoneTest(st, force_reconnect, outcome) ==
    LET s1 == IF force_reconnect THEN Disconnect(st) ELSE st IN
    IF outcome = "ok"
    THEN [st |-> [s1 EXCEPT !.connects = @ + 1,
                            !.connection = s1.connects + 1,
                            !.openConns = @ \cup {s1.connects + 1}],
          raised |-> FALSE, connected |-> <<outcome>>]
    ELSE [st |-> [s1 EXCEPT !.connection = 0],
          raised |-> TRUE, connected |-> <<outcome>>]

\* _connect (lines 111-131); outcome is what MySQLdb.connect does if called
Connect(st, force_reconnect, outcome) ==
    LET s1 == IF force_reconnect THEN Disconnect(st) ELSE st IN
    IF s1.connection = 0
    THEN IF outcome = "ok"
         THEN [st |-> [s1 EXCEPT !.connects = @ + 1,
                                 !.connection = s1.connects + 1,
                                 !.openConns = @ \cup {s1.connects + 1}],
               raised |-> FALSE, connected |-> <<outcome>>]
         ELSE [st |-> [s1 EXCEPT !.connection = 0],
               raised |-> TRUE, connected |-> <<outcome>>]
    ELSE [st |-> s1, raised |-> FALSE, connected |-> <<>>]

\* db_fetch (lines 78-81): "ok" or the cause of its failure; a statement on
\* a connection that the server has closed fails whatever the query
DbFetch(st, outcome) ==
    IF st.connection \notin st.openConns THEN "server_gone" ELSE outcome

NoPcResult ==
    [outcome |-> "return", error |-> "", list |-> <<>>, fetches |-> <<>>,
     reconnects |-> 0, connected |-> <<>>]

\* Lines 96-100
Finish(st, persistentConn, res) ==
    [st |-> IF ~persistentConn THEN Disconnect(st) ELSE st, res |-> res]

\* filter_protected_corpora appending each corpus to the list as the cursor
\* yields it: a fetch that fails has left the rows it got in the list
FilterProtectedCorpora_AppendsWhileFetching(st, persistentConn, protected_corpora, rows, connect1, fetch1, connect2, fetch2) ==
    LET c1 == Connect(st, FALSE, connect1)
        r0 == [NoPcResult EXCEPT !.list = protected_corpora,
                                 !.connected = c1.connected]
    IN
    IF c1.raised
    THEN [st |-> c1.st,
          res |-> [r0 EXCEPT !.outcome = "raise", !.error = "ConnectionError"]]
    ELSE
    LET f1 == DbFetch(c1.st, fetch1)
        part1 == IF f1 = "ok" THEN <<>> ELSE SubSeq(rows, 1, 1)
        r1 == [r0 EXCEPT !.fetches = <<f1>>,
                         !.list = protected_corpora \o part1]
    IN
    IF f1 = "ok"
    THEN Finish(c1.st, persistentConn,
                [r1 EXCEPT !.list = protected_corpora \o rows])
    ELSE IF ~Caught(f1)
    THEN [st |-> c1.st,
          res |-> [r1 EXCEPT !.outcome = "raise", !.error = ExceptionOf(f1)]]
    ELSE
    LET c2 == Connect(c1.st, TRUE, connect2)
        r2 == [r1 EXCEPT !.reconnects = 1,
                         !.connected = c1.connected \o c2.connected]
    IN
    IF c2.raised
    THEN [st |-> c2.st,
          res |-> [r2 EXCEPT !.outcome = "raise", !.error = "ConnectionError"]]
    ELSE
    LET f2 == DbFetch(c2.st, fetch2)
        r3 == [r2 EXCEPT !.fetches = <<f1, f2>>]
    IN
    IF f2 = "ok"
    THEN Finish(c2.st, persistentConn,
                [r3 EXCEPT !.list = protected_corpora \o part1 \o rows])
    ELSE IF Caught(f2)
    THEN [st |-> c2.st,
          res |-> [r3 EXCEPT !.outcome = "raise", !.error = "ConnectionError"]]
    ELSE [st |-> c2.st,
          res |-> [r3 EXCEPT !.outcome = "raise", !.error = ExceptionOf(f2)]]

\* filter_protected_corpora (lines 69-100) on the list protected_corpora,
\* the database holding the corpora rows; connect1, fetch1, connect2 and
\* fetch2 are what the database does at the connects and fetches of the
\* call, as far as the call gets.  The result is the state of the plugin
\* after the call and what the call produced: list is the content of the
\* caller's list then.
FilterProtectedCorpora(st, persistentConn, protected_corpora, rows, connect1, fetch1, connect2, fetch2) ==
    LET c1 == Connect(st, FALSE, connect1)
        r0 == [NoPcResult EXCEPT !.list = protected_corpora,
                                 !.connected = c1.connected]
    IN
    IF c1.raised
    THEN [st |-> c1.st,
          res |-> [r0 EXCEPT !.outcome = "raise", !.error = "ConnectionError"]]
    ELSE
    LET f1 == DbFetch(c1.st, fetch1)
        r1 == [r0 EXCEPT !.fetches = <<f1>>]
    IN
    IF f1 = "ok"
    THEN Finish(c1.st, persistentConn,
                [r1 EXCEPT !.list = protected_corpora \o rows])
    ELSE IF ~Caught(f1)
    THEN [st |-> c1.st,
          res |-> [r1 EXCEPT !.outcome = "raise", !.error = ExceptionOf(f1)]]
    ELSE
    LET c2 == Connect(c1.st, TRUE, connect2)
        r2 == [r1 EXCEPT !.reconnects = 1,
                         !.connected = c1.connected \o c2.connected]
    IN
    IF c2.raised
    THEN [st |-> c2.st,
          res |-> [r2 EXCEPT !.outcome = "raise", !.error = "ConnectionError"]]
    ELSE
    LET f2 == DbFetch(c2.st, fetch2)
        r3 == [r2 EXCEPT !.fetches = <<f1, f2>>]
    IN
    IF f2 = "ok"
    THEN Finish(c2.st, persistentConn,
                [r3 EXCEPT !.list = protected_corpora \o rows])
    ELSE IF Caught(f2)
    THEN [st |-> c2.st,
          res |-> [r3 EXCEPT !.outcome = "raise", !.error = "ConnectionError"]]
    ELSE [st |-> c2.st,
          res |-> [r3 EXCEPT !.outcome = "raise", !.error = ExceptionOf(f2)]]

\* The inputs of the plugin
ProtectedLists == {<<>>, <<"P1">>}
CorporaRows == {<<"S1", "S2">>}
ConnectOutcomes == {"ok", "refused"}
FetchOutcomes == {"ok"} \cup FetchFailures

\* What the database does at the connects and fetches of one call, as far
\* as a call can get: no forced reconnect follows a fetch that succeeded or
\* whose exception is not caught, no fetch follows a refused connect
Scripts ==
    {s \in [connect1 : ConnectOutcomes, fetch1 : FetchOutcomes,
            connect2 : ConnectOutcomes, fetch2 : FetchOutcomes] :
        /\ s.connect1 = "refused" => s.fetch1 = "ok"
        /\ (s.connect1 = "refused" \/ s.fetch1 = "ok" \/ ~Caught(s.fetch1))
              => s.connect2 = "ok"
        /\ (s.connect2 = "refused" \/ s.connect1 = "refused"
             \/ s.fetch1 = "ok" \/ ~Caught(s.fetch1)) => s.fetch2 = "ok"}

-----------------------------------------------------------------------------
(* The state machine *)

\* A dict with no key
EmptyDict == [k \in {} |-> 0]

NoIdemReq ==
    [phase |-> 0, username |-> <<>>, affiliation |-> <<>>,
     entitlement |-> <<>>, others |-> 0]

NoPostdata == EmptyDict

NoShibEnv ==
    [addr |-> 1, endpoint |-> "authenticate", environ |-> EmptyDict,
     headers |-> EmptyDict]

NoShibOut ==
    [called |-> FALSE, postdata |-> NoPostdata, got |-> EmptyDict,
     resolved |-> FALSE, result |-> NoResult]

NoThreads == EmptyDict

NoRequests == EmptyDict

NoPayload ==
    [called |-> FALSE, args |-> EmptyDict, resolved |-> NoResult,
     response |-> EmptyDict]

NoPipeline ==
    [started |-> FALSE, plugins |-> <<>>, pos |-> 0, request |-> NoShibEnv,
     username |-> EmptyDict, value0 |-> EmptyDict,
     value |-> [isNone |-> FALSE, dict |-> EmptyDict], raised |-> FALSE,
     applied |-> <<>>, logged |-> <<>>]

NoLevels ==
    [library |-> "", logger |-> "", adapters |-> EmptyDict,
     last |-> [slot |-> 0, call |-> "", level |-> "", emitted |-> FALSE]]

NoConf ==
    [called |-> FALSE, pluginconf |-> EmptyDict, params |-> EmptyDict]

NoAuthLog == [level |-> "", reqs |-> EmptyDict, log |-> {}]

NoAuthReq ==
    [called |-> FALSE, username |-> <<>>, affiliation |-> <<>>,
     entitlement |-> <<>>, down |-> "none"]

PluginState ==
    [connection |-> connection, openConns |-> openConns, connects |-> connects]

NoPcReq ==
    [called |-> FALSE, protected_corpora |-> <<>>, rows |-> <<>>,
     script |-> [connect1 |-> "ok", fetch1 |-> "ok",
                 connect2 |-> "ok", fetch2 |-> "ok"]]

\* The authorization server before a request; the plugin as __init__ leaves
\* it (lines 48-51, no connection yet), PERSISTENT_DB_CONNECTION as it
\* declares it (line 40)
InitAuth ==
    /\ authDb \in Databases
    /\ authReq = NoAuthReq
    /\ authRes = NoResult
    /\ connection = 0
    /\ openConns = {}
    /\ connects = 0
    /\ persistent = TRUE
    /\ pcReq = NoPcReq
    /\ pcRes = NoPcResult
    /\ idemReq = NoIdemReq
    /\ idemRes1 = NoResult
    /\ idemRes2 = NoResult
    /\ shibEnv = NoShibEnv
    /\ shibIn = NoPostdata
    /\ shibOut = NoShibOut
    /\ threads = NoThreads
    /\ requests = NoRequests
    /\ loggers = EmptyDict
    /\ logdata = EmptyDict
    /\ usernames = EmptyDict
    /\ payload = NoPayload
    /\ pipeline = NoPipeline
    /\ levels = NoLevels
    /\ conf = NoConf
    /\ authLog = NoAuthLog

\* The plugin as __init__ leaves it (lines 48-51), PERSISTENT_DB_CONNECTION
\* as config.py sets it; the authorization server before a request
InitPc ==
    /\ connection = 0
    /\ openConns = {}
    /\ connects = 0
    /\ persistent \in BOOLEAN
    /\ pcReq = NoPcReq
    /\ pcRes = NoPcResult
    /\ authDb = CHOOSE db \in Databases : TRUE
    /\ authReq = NoAuthReq
    /\ authRes = NoResult
    /\ idemReq = NoIdemReq
    /\ idemRes1 = NoResult
    /\ idemRes2 = NoResult
    /\ shibEnv = NoShibEnv
    /\ shibIn = NoPostdata
    /\ shibOut = NoShibOut
    /\ threads = NoThreads
    /\ requests = NoRequests
    /\ loggers = EmptyDict
    /\ logdata = EmptyDict
    /\ usernames = EmptyDict
    /\ payload = NoPayload
    /\ pipeline = NoPipeline
    /\ levels = NoLevels
    /\ conf = NoConf
    /\ authLog = NoAuthLog

Init ==
    /\ authDb \in Databases
    /\ authReq = NoAuthReq
    /\ authRes = NoResult
    /\ connection = 0
    /\ openConns = {}
    /\ connects = 0
    /\ persistent \in BOOLEAN
    /\ pcReq = NoPcReq
    /\ pcRes = NoPcResult
    /\ idemReq = NoIdemReq
    /\ idemRes1 = NoResult
    /\ idemRes2 = NoResult
    /\ shibEnv = NoShibEnv
    /\ shibIn = NoPostdata
    /\ shibOut = NoShibOut
    /\ threads = NoThreads
    /\ requests = NoRequests
    /\ loggers = EmptyDict
    /\ logdata = EmptyDict
    /\ usernames = EmptyDict
    /\ payload = NoPayload
    /\ pipeline = NoPipeline
    /\ levels = NoLevels
    /\ conf = NoConf
    /\ authLog = NoAuthLog

\* One request of the authorization server reaches _get_permitted_resources
\* (auth.py, lines 76-78)
GetPermittedResourcesCall ==
    /\ ~authReq.called
    /\ \E username \in Usernames, affiliation \in Affiliations,
          entitlement \in Entitlements, down \in Down :
          /\ authReq' = [called |-> TRUE, username |-> username,
                         affiliation |-> affiliation,
                         entitlement |-> entitlement, down |-> down]
          /\ authRes' \in GetPermittedResources(username, affiliation,
                                                entitlement, authDb, down)
    /\ UNCHANGED <<restVars, authDb, pcVars, idemVars, shibVars, concVars, reqVars>>

\* One call of the mount point filter_protected_corpora
FilterProtectedCorporaCall ==
    \E protected_corpora \in ProtectedLists, rows \in CorporaRows,
       s \in Scripts :
       LET r == FilterProtectedCorpora(PluginState, persistent,
                                       protected_corpora, rows, s.connect1,
                                       s.fetch1, s.connect2, s.fetch2)
       IN /\ r.st.connects <= MaxConnects
          /\ connection' = r.st.connection
          /\ openConns' = r.st.openConns
          /\ connects' = r.st.connects
          /\ pcReq' = [called |-> TRUE, protected_corpora |-> protected_corpora,
                       rows |-> rows, script |-> s]
          /\ pcRes' = r.res
          /\ UNCHANGED <<restVars, persistent, authVars, idemVars, shibVars, concVars, reqVars>>

\* The database server closes a connection of the plugin (an idle timeout,
\* a restart) without the plugin taking part
ServerClosesConnection ==
    /\ \E c \in openConns : openConns' = openConns \ {c}
    /\ UNCHANGED <<restVars, connection, connects, persistent, pcReq, pcRes, authVars,
                   idemVars, shibVars, concVars, reqVars>>

NextAuth == GetPermittedResourcesCall

NextPc == FilterProtectedCorporaCall \/ ServerClosesConnection

Next == NextAuth \/ NextPc

\* The resolver runs in the authorization server and the plugin in the Korp
\* backend: each is specified with the other at rest, Spec has both
SpecAuth == InitAuth /\ [][NextAuth]_vars

SpecPc == InitPc /\ [][NextPc]_vars

Spec == Init /\ [][Next]_vars

-----------------------------------------------------------------------------
(* The claims about the permission resolver, under SpecAuth *)

\* Whether the statement of lines 166-182 was executed in the last call
QueryIssued == \E i \in 1..Len(authRes.calls) : authRes.calls[i].kind = "query"

\* Whether the last call got as far as classifying the user (line 140)
Classified ==
    authReq.called /\ authReq.username # <<>> /\ authReq.down # "connect"

\* C1: for an empty username, whatever the affiliation and the entitlement,
\* _get_permitted_resources returns authenticated = false and no corpora,
\* and neither obtains a cursor nor executes a statement.
C1_EmptyUsernameNoStoreCall ==
    (authReq.called /\ authReq.username = <<>>) =>
        /\ authRes.outcome = "return"
        /\ authRes.authenticated = FALSE
        /\ authRes.corpora = <<>>
        /\ ~authRes.cursor
        /\ authRes.calls = <<>>

C1_Witness ==
    /\ authReq.called
    /\ authReq.username = <<>>
    /\ authReq.affiliation # <<>>
    /\ authReq.entitlement # <<>>
    /\ authReq.down = "connect"
    /\ authRes.outcome = "return"

\* The tokens of a semicolon-delimited string, as a set: the non-empty
\* stretches without a semicolon that a semicolon or an end of the string
\* bounds on both sides
TokensOf(e) ==
    LET starts == {i \in 1..Len(e) :
                      e[i] # ";" /\ (i = 1 \/ e[i - 1] = ";")}
        ends == {j \in 1..Len(e) :
                    e[j] # ";" /\ (j = Len(e) \/ e[j + 1] = ";")}
    IN {SubSeq(e, i, CHOOSE j \in ends : j >= i /\ \A k \in ends : k >= i => j <= k) :
           i \in starts}

\* The corpora C2 names: licensed ACA (ACA-Fi for the top domain fi) for an
\* academic user, allow-listed for the username, mapped from a token
ClaimedCorpora(db, academic, top_domain, username, entitlement) ==
    {r.corpus : r \in {x \in db.auth_license :
                          /\ academic
                          /\ \/ x.license = "ACA"
                             \/ x.license = "ACA-Fi" /\ top_domain = FI}}
    \cup {r.corpus : r \in {x \in db.auth_allow : x.person = username}}
    \cup {r.corpus : r \in {x \in db.auth_lbr_map :
                               x.lbr_id \in TokensOf(entitlement)}}

\* C2: for a non-empty username with the store available,
\* _get_permitted_resources returns authenticated = true and exactly the
\* upper-cased identifiers of the corpora licensed for the final academic
\* flag and top domain, allow-listed for this exact username or mapped from
\* a token of the entitlement.
C2_PermittedUnion ==
    (authReq.called /\ authReq.username # <<>> /\ authReq.down = "none") =>
        /\ authRes.outcome = "return"
        /\ authRes.authenticated = TRUE
        /\ Range(authRes.corpora) =
              {Upper(c) : c \in ClaimedCorpora(authDb, authRes.academic,
                                               authRes.top_domain,
                                               authReq.username,
                                               authReq.entitlement)}

\* C3: the corpora returned hold no identifier twice and each is upper-case.
C3_NoDuplicatesUpperCase ==
    (authReq.called /\ authRes.outcome = "return") =>
        /\ \A i, j \in 1..Len(authRes.corpora) :
              i # j => authRes.corpora[i] # authRes.corpora[j]
        /\ \A i \in 1..Len(authRes.corpora) :
              \A k \in 1..Len(authRes.corpora[i]) :
                  \A l \in 1..Len(LowerChars) :
                      authRes.corpora[i][k] # LowerChars[l]

\* C4 as claimed: for a username ending with ".fi@clarin.eu" for which
\* academic is true when the permission query is issued, the top_domain of
\* that query is "fi".
C4_Original ==
    (authReq.called /\ EndsWith(authReq.username, CLARIN_FI_SUFFIX)
        /\ QueryIssued /\ authRes.academic) =>
        authRes.top_domain = FI

\* C4 as amended: for a username ending with ".fi@clarin.eu" that the
\* identity attributes classify as academic (before the lookup in the local
\* allow-list), the top_domain of the permission query is "fi"; a user who
\* is academic by the local allow-list alone keeps the trailing domain of
\* the username.
C4_TopDomainFiWhenAcademicByAttributes ==
    (authReq.called /\ EndsWith(authReq.username, CLARIN_FI_SUFFIX)
        /\ QueryIssued) =>
        /\ authRes.academic0 => authRes.top_domain = FI
        /\ ~authRes.academic0 =>
              authRes.top_domain = RPartitionLast(authReq.username, ".")

C4_Witness ==
    /\ authReq.called
    /\ EndsWith(authReq.username, CLARIN_FI_SUFFIX)
    /\ QueryIssued
    /\ authRes.academic0
    /\ authRes.top_domain = FI
    /\ RPartitionLast(authReq.username, ".") # FI
    /\ authRes.outcome = "return"

\* Whether the semicolon-delimited string e has the token t
HasToken(e, t) == t \in TokensOf(e)

\* The academic status C5 names
ClaimedAcademic(username, affiliation, entitlement) ==
    \/ /\ ~EndsWith(username, CLARIN_SUFFIX)
       /\ \E key \in aca_affiliation_values :
             \E i, j \in 1..Len(affiliation) : SubSeq(affiliation, i, j) = key
    \/ /\ EndsWith(username, CLARIN_SUFFIX)
       /\ HasToken(entitlement, ACADEMIC_URN)
    \/ HasToken(entitlement, LBR_URN)

\* C5: the academic status computed from the identity attributes is the
\* disjunction of (a) no "@clarin.eu" username and a keyword within the
\* affiliation, (b) a "@clarin.eu" username and the academic entitlement
\* token, (c) the registry token; so a "@clarin.eu" user with the academic
\* entitlement and no affiliation is academic, and one with an affiliation
\* keyword and neither token is not.
C5_AcademicFromAttributes ==
    Classified =>
        /\ authRes.academic0 = ClaimedAcademic(authReq.username,
                                               authReq.affiliation,
                                               authReq.entitlement)
        /\ (/\ EndsWith(authReq.username, CLARIN_SUFFIX)
            /\ authReq.entitlement = ACADEMIC_URN
            /\ authReq.affiliation = <<>>) => authRes.academic0
        /\ (/\ EndsWith(authReq.username, CLARIN_SUFFIX)
            /\ \E key \in aca_affiliation_values :
                  Contains(authReq.affiliation, key)
            /\ ~HasToken(authReq.entitlement, ACADEMIC_URN)
            /\ ~HasToken(authReq.entitlement, LBR_URN)) => ~authRes.academic0

C5_Witness ==
    /\ Classified
    /\ EndsWith(authReq.username, CLARIN_SUFFIX)
    /\ authReq.entitlement = ACADEMIC_URN
    /\ authReq.affiliation = <<>>
    /\ authRes.academic0

\* The entitlement string with the registry token added at its end and at
\* its start
WithRegistryToken(e) ==
    IF e = <<>> THEN {LBR_URN}
    ELSE {e \o <<";">> \o LBR_URN, LBR_URN \o <<";">> \o e}

\* C6: adding the token "urn:nbn:fi:lb-2016110710" to the semicolon-delimited
\* entitlement of any input makes academic true, and so never turns an
\* academic input into a non-academic one.
C6_RegistryTokenMonotonic ==
    Classified =>
        \A e \in WithRegistryToken(authReq.entitlement) :
            LET after == IsAcademic(authReq.affiliation, TokenizeEntitlement(e),
                                    EndsWith(authReq.username, CLARIN_SUFFIX))
            IN after /\ (authRes.academic0 => after)

C6_Witness ==
    /\ Classified
    /\ ~authRes.academic0
    /\ Len(authRes.tokens) >= 1
    /\ \A e \in WithRegistryToken(authReq.entitlement) :
          IsAcademic(authReq.affiliation, TokenizeEntitlement(e),
                     EndsWith(authReq.username, CLARIN_SUFFIX))

\* C7: if the store is unavailable during the local-academic lookup or
\* during the permission query, _get_permitted_resources returns nothing:
\* the error of the store reaches the caller, and the failed statement was
\* executed once and is the last one executed.
C7_StoreErrorPropagates ==
    (authReq.called /\ authReq.username # <<>>) =>
        /\ (authReq.down = "lookup" /\ ~authRes.academic0) =>
              /\ authRes.outcome = "raise"
              /\ authRes.error = "OperationalError"
              /\ Len(authRes.calls) = 1
              /\ authRes.calls[1].kind = "lookup"
        /\ (authReq.down = "query" /\ QueryIssued) =>
              /\ authRes.outcome = "raise"
              /\ authRes.error = "OperationalError"
              /\ authRes.calls[Len(authRes.calls)].kind = "query"
              /\ Cardinality({i \in 1..Len(authRes.calls) :
                                 authRes.calls[i].kind = "query"}) = 1

C7_Witness ==
    /\ authReq.called
    /\ authReq.down = "lookup"
    /\ ~authRes.academic0
    /\ authRes.cursor
    /\ authRes.outcome = "raise"
    /\ authRes.error = "OperationalError"

-----------------------------------------------------------------------------
(* The claims about the protected-corpora plugin, under SpecPc *)

\* The failures of a fetch that are failures of the connection
ConnectionClass == {"server_gone", "interface"}

\* C8: a first fetch that fails with a connection-class error, followed by
\* a forced reconnect and a fetch that succeed, yields the caller's list
\* with the protected corpora of the store; connection-class errors at both
\* fetches yield ConnectionError; no call fetches more than twice or
\* reconnects more than once.
C8_RetryOnce ==
    pcReq.called =>
        /\ (/\ Len(pcRes.fetches) >= 1
            /\ pcRes.fetches[1] \in ConnectionClass
            /\ pcReq.script.connect2 = "ok"
            /\ pcReq.script.fetch2 = "ok") =>
              /\ pcRes.outcome = "return"
              /\ pcRes.list = pcReq.protected_corpora \o pcReq.rows
              /\ pcRes.fetches = <<pcRes.fetches[1], "ok">>
        /\ (/\ Len(pcRes.fetches) >= 1
            /\ pcRes.fetches[1] \in ConnectionClass
            /\ pcReq.script.connect2 = "ok"
            /\ pcReq.script.fetch2 \in ConnectionClass) =>
              /\ pcRes.outcome = "raise"
              /\ pcRes.error = "ConnectionError"
        /\ Len(pcRes.fetches) <= 2
        /\ pcRes.reconnects <= 1

C8_Witness ==
    /\ pcReq.called
    /\ pcRes.fetches = <<"server_gone", "ok">>
    /\ pcRes.reconnects = 1
    /\ pcRes.outcome = "return"
    /\ pcReq.protected_corpora # <<>>
    /\ pcRes.list = pcReq.protected_corpora \o pcReq.rows

\* C9: a fetch error that is not connection-class (a malformed query or a
\* schema mismatch, an authorization failure) reaches the caller as that
\* error, with no forced reconnect and no second fetch.
C9_OtherErrorsNotRetried ==
    (pcReq.called /\ Len(pcRes.fetches) >= 1
        /\ pcRes.fetches[1] \in FetchFailures \ ConnectionClass) =>
        /\ pcRes.outcome = "raise"
        /\ pcRes.error = ExceptionOf(pcRes.fetches[1])
        /\ pcRes.reconnects = 0
        /\ Len(pcRes.fetches) = 1

\* C10: with PERSISTENT_DB_CONNECTION false, after every call of
\* filter_protected_corpora, whether it returned or raised, the connection
\* is closed and _connection is None.
C10_TornDownAfterEveryCall ==
    (pcReq.called /\ ~persistent) =>
        /\ connection = 0
        /\ openConns = {}

-----------------------------------------------------------------------------
(* Further claims about the permission resolver, under SpecAuth *)

\* The statement of lines 166-179 for another username, the flag and the
\* tokens the same
TextFor(username) ==
    BuildSql(authRes.academic, RPartitionLast(username, "."), username,
             authRes.tokens)

\* C18: the caller's values reach the store as bound parameters in the
\* local-academic lookup and in the permission query, so that the text of
\* a statement sent to the store is the same for any two inputs with the
\* same number of entitlement tokens.
C18_BoundParameters ==
    \A i \in 1..Len(authRes.calls) :
        LET call == authRes.calls[i] IN
        /\ call.kind = "lookup" =>
              /\ call.text = <<SQL_ACADEMIC>>
              /\ call.params = <<authReq.username>>
        /\ call.kind = "query" =>
              \A u \in Usernames \ {<<>>} :
                  TextFor(u).ok => TextFor(u).text = call.text

-----------------------------------------------------------------------------
(* Further claims about the protected-corpora plugin, under SpecPc *)

\* A step that makes a connection is a call that found none held or whose
\* first fetch failed; a call with a persistent connection held and its
\* fetch succeeding makes none
ConnectsLazily ==
    /\ connects' # connects =>
          /\ pcReq'.called
          /\ \/ connection = 0
             \/ /\ pcRes'.reconnects = 1
                /\ pcRes'.fetches[1] # "ok"
    /\ (persistent /\ connection # 0 /\ pcRes'.fetches = <<"ok">>) =>
          /\ connects' = connects
          /\ connection' = connection

\* C20: the plugin holds no connection when constructed; a connection is
\* made only in a call of filter_protected_corpora that found none held or
\* whose first fetch failed and was followed by the forced reconnect; a
\* call that finds a persistent connection held and whose fetch succeeds
\* makes no connection and keeps the one held.
C20_LazyConnection ==
    /\ connection = 0
    /\ connects = 0
    /\ [][ConnectsLazily]_vars

C20_Witness ==
    /\ pcReq.called
    /\ persistent
    /\ connection # 0
    /\ connects = 1
    /\ pcRes.connected = <<>>
    /\ pcRes.fetches = <<"ok">>
    /\ pcRes.outcome = "return"

-----------------------------------------------------------------------------
(* Two calls of _get_permitted_resources with the same arguments, calls of *)
(* other requests in between, the content of the store the same throughout *)

\* Number of calls of other requests between the two calls
MaxOthers == 1

\* A username that makes the second select of the statement read
\* "where person = '' or rand()<1/2 or ''"
RandUsername == <<"'", " or ", "rand()", "<1/2", " or ", "'">>

IdemEntitlements == {<<>>, LBR_ID_1, LBR_URN \o <<";">> \o LBR_ID_1}

\* The arguments of the repeated call: the usernames with a quote in them
\* come with no affiliation and no entitlement
IdemInputs ==
    [phase : {0}, username : {u \in Usernames : Len(u) = 0 \/ u[1] = "b"},
     affiliation : Affiliations, entitlement : IdemEntitlements, others : {0}]
    \cup [phase : {0},
          username : {u \in Usernames : Len(u) > 0 /\ u[1] = "'"}
                        \cup {RandUsername},
          affiliation : {<<>>}, entitlement : {<<>>}, others : {0}]

\* Whether a statement calls a function whose value differs from one
\* evaluation to the next
Volatile(text) == \E i \in 1..Len(text) : text[i] = "rand()"

\* The text of the permission query a call executed, <<>> if it executed none
QueryText(r) ==
    IF r.calls # <<>> /\ r.calls[Len(r.calls)].kind = "query"
    THEN r.calls[Len(r.calls)].text
    ELSE <<>>

\* cursor.execute (line 182) on a store whose content has not changed: the
\* same statement gives the same rows or the same error, unless it calls a
\* volatile function
SameAnswer(r1, r2) ==
    (/\ QueryText(r1) # <<>>
     /\ QueryText(r1) = QueryText(r2)
     /\ ~Volatile(QueryText(r1))) =>
        /\ r2.outcome = r1.outcome
        /\ r2.error = r1.error
        /\ r2.corpora = r1.corpora

InitIdem ==
    /\ authDb \in Databases
    /\ authReq = NoAuthReq
    /\ authRes = NoResult
    /\ connection = 0
    /\ openConns = {}
    /\ connects = 0
    /\ persistent = TRUE
    /\ pcReq = NoPcReq
    /\ pcRes = NoPcResult
    /\ idemReq \in IdemInputs
    /\ idemRes1 = NoResult
    /\ idemRes2 = NoResult
    /\ shibEnv = NoShibEnv
    /\ shibIn = NoPostdata
    /\ shibOut = NoShibOut
    /\ threads = NoThreads
    /\ requests = NoRequests
    /\ loggers = EmptyDict
    /\ logdata = EmptyDict
    /\ usernames = EmptyDict
    /\ payload = NoPayload
    /\ pipeline = NoPipeline
    /\ levels = NoLevels
    /\ conf = NoConf
    /\ authLog = NoAuthLog

\* The first call (auth.py, lines 76-78), the store available
FirstCall ==
    /\ idemReq.phase = 0
    /\ idemReq' = [idemReq EXCEPT !.phase = 1]
    /\ idemRes1' \in GetPermittedResources(idemReq.username,
                          idemReq.affiliation, idemReq.entitlement,
                          authDb, "none")
    /\ UNCHANGED <<restVars, authVars, pcVars, idemRes2, shibVars, concVars, reqVars>>

\* A call of another request: the statements of lines 152 and 182 are
\* selects, and the call leaves nothing behind in the process
OtherCall ==
    /\ idemReq.phase = 1
    /\ idemReq.others < MaxOthers
    /\ \E username \in {l \o CLARIN_SUFFIX : l \in LocalParts} :
          GetPermittedResources(username, <<>>, LBR_ID_1, authDb, "none") # {}
    /\ idemReq' = [idemReq EXCEPT !.others = @ + 1]
    /\ UNCHANGED <<restVars, authVars, pcVars, idemRes1, idemRes2, shibVars, concVars,
                   reqVars>>

\* The second call, with the arguments of the first
SecondCall ==
    /\ idemReq.phase = 1
    /\ idemReq' = [idemReq EXCEPT !.phase = 2]
    /\ idemRes2' \in {r \in GetPermittedResources(idemReq.username,
                                idemReq.affiliation, idemReq.entitlement,
                                authDb, "none") : SameAnswer(idemRes1, r)}
    /\ UNCHANGED <<restVars, authVars, pcVars, idemRes1, shibVars, concVars, reqVars>>

NextIdem == FirstCall \/ OtherCall \/ SecondCall

SpecIdem == InitIdem /\ [][NextIdem]_vars

\* C19: two calls of _get_permitted_resources with the same username,
\* affiliation and entitlement over an unchanged store, whatever calls of
\* other requests come in between, return the same authenticated flag and
\* the same set of corpora.
C19_Idempotent ==
    (idemReq.phase = 2 /\ idemRes1.outcome = "return"
        /\ idemRes2.outcome = "return") =>
        /\ idemRes2.authenticated = idemRes1.authenticated
        /\ Range(idemRes2.corpora) = Range(idemRes1.corpora)

-----------------------------------------------------------------------------
(* src/korpplugins/shibauth/__init__.py: the Shibboleth authorizer *)

\* The logical attribute keys of lines 66-73
REMOTE_USER ==
    <<"R", "E", "M", "O", "T", "E", "_", "U", "S", "E", "R">>
HTTP_UNSCOPED_AFFILIATION ==
    <<"H", "T", "T", "P", "_", "U", "N", "S", "C", "O", "P", "E", "D", "_",
      "A", "F", "F", "I", "L", "I", "A", "T", "I", "O", "N">>
HTTP_AFFILIATION ==
    <<"H", "T", "T", "P", "_", "A", "F", "F", "I", "L", "I", "A", "T", "I",
      "O", "N">>
HTTP_ENTITLEMENT ==
    <<"H", "T", "T", "P", "_", "E", "N", "T", "I", "T", "L", "E", "M", "E",
      "N", "T">>
HTTP_PREFIX == <<"H", "T", "T", "P", "_">>
X_PREFIX == <<"X", "-">>

\* What dict.get and headers.get return for a missing key
None == <<"<None>">>

\* The truth value of a string or None
Truthy(v) == v # None /\ v # <<>>

\* dict.get(key), d[key] = value, del d[key]
DictGet(d, key) == IF key \in DOMAIN d THEN d[key] ELSE None
DictSet(d, key, value) ==
    [k \in DOMAIN d \cup {key} |-> IF k = key THEN value ELSE d[k]]
DictDel(d, key) == [k \in DOMAIN d \ {key} |-> d[k]]

\* str.startswith
StartsWith(s, prefix) ==
    Len(s) >= Len(prefix) /\ SubSeq(s, 1, Len(prefix)) = prefix

\* s.replace(old, new) for one-character old and new
Replace(s, old, new) == [i \in 1..Len(s) |-> IF s[i] = old THEN new ELSE s[i]]

\* The lower-case letter of each upper-case letter
LowerOf ==
    [c \in {UpperChars[i] : i \in 1..Len(UpperChars)} |->
        LowerChars[CHOOSE i \in 1..Len(UpperChars) : UpperChars[i] = c]]

LowerChar(c) == IF c \in DOMAIN LowerOf THEN LowerOf[c] ELSE c

\* str.lower
Lower(s) == [i \in 1..Len(s) |-> LowerChar(s[i])]

IsLetter(c) == c \in DOMAIN LowerOf \/ LowerChar(UpperChar(c)) # UpperChar(c)

\* str.title: a letter that follows no letter in upper case, the other
\* letters in lower case
Title(s) ==
    [i \in 1..Len(s) |->
        IF i = 1 \/ ~IsLetter(s[i - 1]) THEN UpperChar(s[i]) ELSE LowerChar(s[i])]

\* request.headers.get(name): header names are compared without regard to
\* case
HeadersGet(headers, name) ==
    IF \E h \in DOMAIN headers : Lower(h) = Lower(name)
    THEN headers[CHOOSE h \in DOMAIN headers : Lower(h) = Lower(name)]
    ELSE None

\* get_value with the header without the prefix "X-" tried first
GetValue_PlainHeaderFirst(request, key) ==
    LET value == DictGet(request.environ, key) IN
    IF Truthy(value) THEN value
    ELSE LET key1 == IF StartsWith(key, HTTP_PREFIX)
                     THEN SubSeq(key, 6, Len(key)) ELSE key
             key2 == Title(Replace(key1, "_", "-"))
             x == HeadersGet(request.headers, X_PREFIX \o key2)
             h == HeadersGet(request.headers, key2)
         IN IF Truthy(h) THEN h ELSE IF Truthy(x) THEN x ELSE <<>>

\* get_value (lines 47-64)
GetValue(request, key) ==
    LET value == DictGet(request.environ, key) IN
    IF Truthy(value) THEN value
    ELSE LET key1 == IF StartsWith(key, HTTP_PREFIX)
                     THEN SubSeq(key, 6, Len(key)) ELSE key
             key2 == Title(Replace(key1, "_", "-"))
             x == HeadersGet(request.headers, X_PREFIX \o key2)
             h == HeadersGet(request.headers, key2)
         IN IF Truthy(x) THEN x ELSE IF Truthy(h) THEN h ELSE <<>>

\* RequestKey with one key for all the requests of the process
RequestKey_Process(request) == 0

\* The key of a request in the dict _username: request objects are hashed
\* and compared by identity
RequestKey(request) == request.addr

\* The values get_value returned in a call of filter_auth_postdata, by key:
\* the affiliation keys and the entitlement key are read only for a
\* non-empty REMOTE_USER, HTTP_AFFILIATION only for an empty
\* HTTP_UNSCOPED_AFFILIATION (lines 66-73)
ValuesRead(request) ==
    LET remote_user == GetValue(request, REMOTE_USER)
        unscoped == GetValue(request, HTTP_UNSCOPED_AFFILIATION)
        keys == {REMOTE_USER}
                \cup (IF Truthy(remote_user)
                      THEN {HTTP_UNSCOPED_AFFILIATION, HTTP_ENTITLEMENT}
                      ELSE {})
                \cup (IF Truthy(remote_user) /\ ~Truthy(unscoped)
                      THEN {HTTP_AFFILIATION} ELSE {})
    IN [k \in keys |-> GetValue(request, k)]

\* The postdata of lines 74-78
ShibbolethPostdata(request) ==
    LET remote_user == GetValue(request, REMOTE_USER)
        unscoped == GetValue(request, HTTP_UNSCOPED_AFFILIATION)
        affiliation == IF Truthy(unscoped) THEN unscoped
                       ELSE GetValue(request, HTTP_AFFILIATION)
        entitlement == GetValue(request, HTTP_ENTITLEMENT)
    IN [remote_user |-> remote_user, affiliation |-> Lower(affiliation),
        entitlement |-> entitlement]

\* filter_auth_postdata keeping the keys of the incoming postdata that the
\* Shibboleth postdata does not have
FilterAuthPostdata_Merging(postdata, request, username) ==
    LET remote_user == GetValue(request, REMOTE_USER)
        shib == ShibbolethPostdata(request)
    IN [postdata |-> IF Truthy(remote_user)
                     THEN [k \in DOMAIN postdata \cup DOMAIN shib |->
                              IF k \in DOMAIN shib THEN shib[k] ELSE postdata[k]]
                     ELSE postdata,
        username |-> DictSet(username, RequestKey(request), remote_user),
        got |-> ValuesRead(request)]

\* filter_auth_postdata (lines 37-79) for the dict _username: the postdata
\* returned, the dict afterwards, the values get_value returned
FilterAuthPostdata(postdata, request, username) ==
    LET remote_user == GetValue(request, REMOTE_USER)
    IN [postdata |-> IF Truthy(remote_user)
                     THEN ShibbolethPostdata(request)
                     ELSE postdata,
        username |-> DictSet(username, RequestKey(request), remote_user),
        got |-> ValuesRead(request)]

\* args.get(key, "") of auth.py, line 77
ArgsGet(args, key) == IF key \in DOMAIN args THEN args[key] ELSE <<>>

-----------------------------------------------------------------------------
(* The requests filter_auth_postdata is applied to *)

\* A dict from a set of pairs of a key and a value or None: the keys whose
\* value is not None
DictOf(pairs) ==
    [k \in {p[1] : p \in {q \in pairs : q[2] # None}} |->
        (CHOOSE p \in pairs : p[1] = k)[2]]

USER_ENV == <<"a", "@", "e", "x", ".", "e", "d", "u">>
USER_X == <<"b", "@", "e", "x", ".", "e", "d", "u">>
USER_PLAIN == <<"a", "@", "u", "n", "i", ".", "f", "i">>
AFFILIATION_ENV == <<"F", "a", "c", "u", "l", "t", "y">>
AFFILIATION_PLAIN == <<"a", "l", "u", "m">>
UNSCOPED_ENV == <<"M", "e", "m", "b", "e", "r">>
UNSCOPED_X == <<"S", "T", "A", "F", "F">>
ENTITLEMENT_ENV == LBR_ID_1
ENTITLEMENT_X == LBR_URN \o <<";">> \o LBR_ID_1
ENTITLEMENT_PLAIN == <<";">> \o LBR_URN

X_REMOTE_USER_HEADER ==
    <<"X", "-", "R", "e", "m", "o", "t", "e", "-", "U", "s", "e", "r">>
REMOTE_USER_HEADER ==
    <<"r", "e", "m", "o", "t", "e", "-", "u", "s", "e", "r">>
X_UNSCOPED_AFFILIATION_HEADER ==
    <<"X", "-", "U", "n", "s", "c", "o", "p", "e", "d", "-", "A", "f", "f",
      "i", "l", "i", "a", "t", "i", "o", "n">>
AFFILIATION_HEADER ==
    <<"A", "f", "f", "i", "l", "i", "a", "t", "i", "o", "n">>
X_ENTITLEMENT_HEADER ==
    <<"X", "-", "E", "n", "t", "i", "t", "l", "e", "m", "e", "n", "t">>
ENTITLEMENT_HEADER ==
    <<"E", "n", "t", "i", "t", "l", "e", "m", "e", "n", "t">>

\* request.environ: each key absent, empty or with a value
Environs ==
    {DictOf({<<REMOTE_USER, u>>, <<HTTP_UNSCOPED_AFFILIATION, s>>,
             <<HTTP_AFFILIATION, a>>, <<HTTP_ENTITLEMENT, e>>}) :
        u \in {None, <<>>, USER_ENV}, s \in {None, UNSCOPED_ENV},
        a \in {<<>>, AFFILIATION_ENV}, e \in {None, ENTITLEMENT_ENV}}

\* request.headers, as the reverse proxy sets them; Remote-User arrives in
\* lower case
HeaderSets ==
    {DictOf({<<X_REMOTE_USER_HEADER, xu>>, <<REMOTE_USER_HEADER, u>>,
             <<X_UNSCOPED_AFFILIATION_HEADER, xs>>, <<AFFILIATION_HEADER, a>>,
             <<X_ENTITLEMENT_HEADER, xe>>, <<ENTITLEMENT_HEADER, e>>}) :
        xu \in {None, <<>>, USER_X}, u \in {None, USER_PLAIN},
        xs \in {None, UNSCOPED_X}, a \in {None, AFFILIATION_PLAIN},
        xe \in {None, ENTITLEMENT_X}, e \in {ENTITLEMENT_PLAIN}}

ShibRequests ==
    [addr : {1}, endpoint : {"authenticate"}, environ : Environs,
     headers : HeaderSets]

\* The postdata passed to filter_auth_postdata: none, the credentials of
\* HTTP basic authentication, postdata that names a user
IncomingPostdata ==
    {EmptyDict,
     [username |-> <<"a">>, password |-> <<"b">>],
     [remote_user |-> USER_PLAIN, affiliation |-> AFFILIATION_ENV]}

InitShib ==
    /\ authDb = CHOOSE db \in Databases : db.ci
    /\ authReq = NoAuthReq
    /\ authRes = NoResult
    /\ connection = 0
    /\ openConns = {}
    /\ connects = 0
    /\ persistent = TRUE
    /\ pcReq = NoPcReq
    /\ pcRes = NoPcResult
    /\ idemReq = NoIdemReq
    /\ idemRes1 = NoResult
    /\ idemRes2 = NoResult
    /\ shibEnv \in ShibRequests
    /\ shibIn \in IncomingPostdata
    /\ shibOut = NoShibOut
    /\ threads = NoThreads
    /\ requests = NoRequests
    /\ loggers = EmptyDict
    /\ logdata = EmptyDict
    /\ usernames = EmptyDict
    /\ payload = NoPayload
    /\ pipeline = NoPipeline
    /\ levels = NoLevels
    /\ conf = NoConf
    /\ authLog = NoAuthLog

\* The mount point filter_auth_postdata is called for the request
FilterAuthPostdataCall ==
    /\ ~shibOut.called
    /\ LET r == FilterAuthPostdata(shibIn, shibEnv, usernames) IN
       /\ shibOut' = [shibOut EXCEPT !.called = TRUE, !.postdata = r.postdata,
                                     !.got = r.got]
       /\ usernames' = r.username
    /\ UNCHANGED <<restVars, authVars, pcVars, idemVars, shibEnv, shibIn, concVars,
                   requests, loggers, logdata>>

\* The postdata returned is sent to the authorization server, which
\* resolves it (auth.py, lines 76-78)
ResolvePostdata ==
    /\ shibOut.called
    /\ ~shibOut.resolved
    /\ \E res \in GetPermittedResources(ArgsGet(shibOut.postdata, "remote_user"),
                       ArgsGet(shibOut.postdata, "affiliation"),
                       ArgsGet(shibOut.postdata, "entitlement"), authDb, "none") :
          shibOut' = [shibOut EXCEPT !.resolved = TRUE, !.result = res]
    /\ UNCHANGED <<restVars, authVars, pcVars, idemVars, shibEnv, shibIn, concVars,
                   reqVars>>

NextShib == FilterAuthPostdataCall \/ ResolvePostdata

SpecShib == InitShib /\ [][NextShib]_vars

-----------------------------------------------------------------------------
(* The claims about the Shibboleth authorizer, under SpecShib *)

\* The header of each attribute key, as the claims name it
ClaimedHeaderName(key) ==
    CASE key = REMOTE_USER ->
          <<"R", "e", "m", "o", "t", "e", "-", "U", "s", "e", "r">>
      [] key = HTTP_UNSCOPED_AFFILIATION ->
          <<"U", "n", "s", "c", "o", "p", "e", "d", "-", "A", "f", "f",
            "i", "l", "i", "a", "t", "i", "o", "n">>
      [] key = HTTP_AFFILIATION ->
          <<"A", "f", "f", "i", "l", "i", "a", "t", "i", "o", "n">>
      [] key = HTTP_ENTITLEMENT ->
          <<"E", "n", "t", "i", "t", "l", "e", "m", "e", "n", "t">>

\* The value of an attribute key as C16 states it: the environment
\* variable, else the header with "X-", else the header without, else ""
ClaimedValue(request, key) ==
    LET e == DictGet(request.environ, key)
        x == HeadersGet(request.headers, <<"X", "-">> \o ClaimedHeaderName(key))
        h == HeadersGet(request.headers, ClaimedHeaderName(key))
    IN IF e # None /\ e # <<>> THEN e
       ELSE IF x # None /\ x # <<>> THEN x
       ELSE IF h # None /\ h # <<>> THEN h
       ELSE <<>>

\* Whether the transport asserts no username for the request
NoUsernameAsserted == ClaimedValue(shibEnv, REMOTE_USER) = <<>>

\* C14: when REMOTE_USER is absent or empty in the environment and in the
\* headers X-Remote-User and Remote-User, resolving the postdata that
\* filter_auth_postdata returns yields unauthenticated with no corpora and
\* no access to the authorization store, whatever the incoming postdata.
C14_AnonymousWithoutUsername ==
    (shibOut.resolved /\ NoUsernameAsserted) =>
        /\ shibOut.result.outcome = "return"
        /\ ~shibOut.result.authenticated
        /\ shibOut.result.corpora = <<>>
        /\ ~shibOut.result.cursor
        /\ shibOut.result.calls = <<>>

\* Whether low is s in lower case
IsLowerCased(low, s) ==
    /\ Len(low) = Len(s)
    /\ \A i \in 1..Len(s) :
          /\ \A j \in 1..Len(UpperChars) : low[i] # UpperChars[j]
          /\ \/ low[i] = s[i]
             \/ \E j \in 1..Len(UpperChars) :
                   s[i] = UpperChars[j] /\ low[i] = LowerChars[j]

\* C15: for a non-empty REMOTE_USER value filter_auth_postdata returns a
\* postdata of exactly the keys remote_user (that value), affiliation (the
\* unscoped affiliation if non-empty, else the affiliation, in lower case)
\* and entitlement (the string as it arrived), no key of the incoming
\* postdata kept; for an empty one it returns the incoming postdata.
C15_ShibbolethPostdata ==
    shibOut.called =>
        LET remote_user == ClaimedValue(shibEnv, REMOTE_USER)
            unscoped == ClaimedValue(shibEnv, HTTP_UNSCOPED_AFFILIATION)
            affiliation == IF unscoped # <<>> THEN unscoped
                           ELSE ClaimedValue(shibEnv, HTTP_AFFILIATION)
        IN IF remote_user # <<>>
           THEN /\ DOMAIN shibOut.postdata =
                      {"remote_user", "affiliation", "entitlement"}
                /\ shibOut.postdata["remote_user"] = remote_user
                /\ IsLowerCased(shibOut.postdata["affiliation"], affiliation)
                /\ shibOut.postdata["entitlement"] =
                      ClaimedValue(shibEnv, HTTP_ENTITLEMENT)
           ELSE shibOut.postdata = shibIn

C15_Witness ==
    /\ shibOut.called
    /\ "username" \in DOMAIN shibIn
    /\ DOMAIN shibOut.postdata = {"remote_user", "affiliation", "entitlement"}
    /\ shibOut.postdata["remote_user"] = USER_X
    /\ HTTP_UNSCOPED_AFFILIATION \notin DOMAIN shibEnv.environ
    /\ DictGet(shibEnv.environ, HTTP_AFFILIATION) = AFFILIATION_ENV
    /\ shibOut.postdata["affiliation"] = Lower(AFFILIATION_ENV)
    /\ shibOut.postdata["affiliation"] # AFFILIATION_ENV
    /\ shibOut.postdata["entitlement"] = ENTITLEMENT_X

\* C16: the value get_value returns for an attribute key is the
\* environment variable of that name if present and non-empty; otherwise
\* the header named by the key without a leading "HTTP_", hyphens for
\* underscores, title-cased, first with the prefix "X-" and then without;
\* otherwise the empty string.
C16_LookupOrder ==
    shibOut.called =>
        \A key \in DOMAIN shibOut.got :
            shibOut.got[key] = ClaimedValue(shibEnv, key)

C16_Witness ==
    /\ shibOut.called
    /\ DictGet(shibEnv.environ, REMOTE_USER) = <<>>
    /\ DictGet(shibEnv.headers, X_REMOTE_USER_HEADER) = <<>>
    /\ shibOut.got[REMOTE_USER] = USER_PLAIN
    /\ HTTP_ENTITLEMENT \notin DOMAIN shibEnv.environ
    /\ shibOut.got[HTTP_ENTITLEMENT] = ENTITLEMENT_X
    /\ DictGet(shibEnv.environ, HTTP_AFFILIATION) = AFFILIATION_ENV
    /\ shibOut.got[HTTP_AFFILIATION] = AFFILIATION_ENV

-----------------------------------------------------------------------------
(* Concurrent calls of filter_protected_corpora on the one plugin instance: *)
(* each caller runs the statements of lines 83-100 in order, the callers    *)
(* interleaved between the calls of _connect and the parts of db_fetch      *)

\* Number of concurrent callers
NumCallers == 2

Callers == 1..NumCallers

\* Where a caller is: before a call; _connect has returned (lines 84, 90);
\* db_fetch has its cursor and executes the statement (lines 79-81); the
\* first fetch has failed and the forced reconnect is next (line 90); the
\* fetch has succeeded and lines 96-100 are next
IdleCaller ==
    [pc |-> "idle", attempt |-> 0, handle |-> 0, outcome |-> "none",
     error |-> ""]

\* Whether a caller is between obtaining the connection and the end of its
\* fetch
InUse(c) == c.pc \in {"connected", "fetching"}

\* The end of a call that raises
Raised(c, error) ==
    [c EXCEPT !.pc = "idle", !.outcome = "raise", !.error = error,
              !.handle = 0]

\* What follows an exception in db_fetch (lines 85-94): the forced reconnect
\* after the first fetch, ConnectionError after the second, if the
\* exception is caught; the exception itself if not
AfterFetchError(c, class) ==
    IF Superclasses(class) \cap connection_errors # {}
    THEN IF c.attempt = 1
         THEN [c EXCEPT !.pc = "retry", !.handle = 0]
         ELSE Raised(c, "ConnectionError")
    ELSE Raised(c, class)

InitPcConc ==
    /\ connection = 0
    /\ openConns = {}
    /\ connects = 0
    /\ persistent \in BOOLEAN
    /\ pcReq = NoPcReq
    /\ pcRes = NoPcResult
    /\ authDb = CHOOSE db \in Databases : TRUE
    /\ authReq = NoAuthReq
    /\ authRes = NoResult
    /\ idemReq = NoIdemReq
    /\ idemRes1 = NoResult
    /\ idemRes2 = NoResult
    /\ shibEnv = NoShibEnv
    /\ shibIn = NoPostdata
    /\ shibOut = NoShibOut
    /\ threads = [t \in Callers |-> IdleCaller]
    /\ requests = NoRequests
    /\ loggers = EmptyDict
    /\ logdata = EmptyDict
    /\ usernames = EmptyDict
    /\ payload = NoPayload
    /\ pipeline = NoPipeline
    /\ levels = NoLevels
    /\ conf = NoConf
    /\ authLog = NoAuthLog

\* Line 84: a call begins with self._connect()
CallerConnects(t) ==
    /\ threads[t].pc = "idle"
    /\ connects < MaxConnects
    /\ \E outcome \in ConnectOutcomes :
          LET c == Connect(PluginState, FALSE, outcome) IN
          /\ connection' = c.st.connection
          /\ openConns' = c.st.openConns
          /\ connects' = c.st.connects
          /\ threads' = [threads EXCEPT ![t] =
                IF c.raised
                THEN Raised(IdleCaller, "ConnectionError")
                ELSE [IdleCaller EXCEPT !.pc = "connected", !.attempt = 1,
                                        !.handle = c.st.connection]]
    /\ UNCHANGED <<restVars, persistent, pcReq, pcRes, authVars, idemVars, shibVars,
                   reqVars>>

\* Line 79: cursor = self._connection.cursor(); AttributeError if
\* _connection is None by now
CallerOpensCursor(t) ==
    /\ threads[t].pc = "connected"
    /\ threads' = [threads EXCEPT ![t] =
          IF connection = 0
          THEN AfterFetchError(threads[t], "AttributeError")
          ELSE [threads[t] EXCEPT !.pc = "fetching", !.handle = connection]]
    /\ UNCHANGED <<restVars, connection, openConns, connects, persistent, pcReq, pcRes,
                   authVars, idemVars, shibVars, reqVars>>

\* Lines 80-81: the statement is executed on the cursor's connection and
\* the rows are read
CallerFetches(t) ==
    /\ threads[t].pc = "fetching"
    /\ \E outcome \in FetchOutcomes :
          LET f == IF threads[t].handle \in openConns
                   THEN outcome ELSE "server_gone"
          IN threads' = [threads EXCEPT ![t] =
                IF f = "ok"
                THEN [threads[t] EXCEPT !.pc = "fetched"]
                ELSE AfterFetchError(threads[t], ExceptionOf(f))]
    /\ UNCHANGED <<restVars, connection, openConns, connects, persistent, pcReq, pcRes,
                   authVars, idemVars, shibVars, reqVars>>

\* Line 90: self._connect(force_reconnect=True)
CallerReconnects(t) ==
    /\ threads[t].pc = "retry"
    /\ \E outcome \in ConnectOutcomes :
          LET c == Connect(PluginState, TRUE, outcome) IN
          /\ connection' = c.st.connection
          /\ openConns' = c.st.openConns
          /\ connects' = c.st.connects
          /\ threads' = [threads EXCEPT ![t] =
                IF c.raised
                THEN Raised(threads[t], "ConnectionError")
                ELSE [threads[t] EXCEPT !.pc = "connected", !.attempt = 2,
                                        !.handle = c.st.connection]]
    /\ UNCHANGED <<restVars, persistent, pcReq, pcRes, authVars, idemVars, shibVars,
                   reqVars>>

\* Lines 96-100: the teardown of a connection that is not persistent, and
\* the return
CallerReturns(t) ==
    /\ threads[t].pc = "fetched"
    /\ LET st == IF ~persistent THEN Disconnect(PluginState) ELSE PluginState
       IN /\ connection' = st.connection
          /\ openConns' = st.openConns
          /\ connects' = st.connects
    /\ threads' = [threads EXCEPT ![t] =
          [IdleCaller EXCEPT !.outcome = "return"]]
    /\ UNCHANGED <<restVars, persistent, pcReq, pcRes, authVars, idemVars, shibVars,
                   reqVars>>

NextPcConc ==
    \E t \in Callers :
        \/ CallerConnects(t)
        \/ CallerOpensCursor(t)
        \/ CallerFetches(t)
        \/ CallerReconnects(t)
        \/ CallerReturns(t)

SpecPcConc == InitPcConc /\ [][NextPcConc]_vars

\* C13: while a call of filter_protected_corpora is between obtaining the
\* connection and the end of its fetch, the handle it obtained is still the
\* plugin's connection and open (no other call has closed it, replaced it
\* or set it to None), and no two calls execute a statement on the same
\* handle at the same time.
C13_ConnectionSerialized ==
    /\ \A t \in Callers :
          InUse(threads[t]) =>
              /\ connection = threads[t].handle
              /\ threads[t].handle \in openConns
    /\ \A t, u \in Callers :
          (t # u /\ threads[t].pc = "fetching" /\ threads[u].pc = "fetching")
              => threads[t].handle # threads[u].handle

-----------------------------------------------------------------------------
(* src/korpplugins/logger/__init__.py and the per-request state of         *)
(* src/korpplugins/shibauth/__init__.py: the requests in flight in one     *)
(* backend process, each calling the mount points of the two plugins in    *)
(* its own order, the calls of different requests interleaved              *)

\* Number of requests in flight at the same time
NumRequests == 2

\* The places of the request objects in memory: a request object keeps its
\* place while the request is in flight, and the place is taken by the
\* object of a later request (with the same id()) once it is released
Slots == 1..NumRequests

\* pluginconf.LOG_LEVEL and pluginconf.LOG_ENABLE_DEBUG_PARAM (lines 40, 43)
LOG_LEVEL == "INFO"
LOG_ENABLE_DEBUG_PARAM == TRUE

\* The kinds of request: what the request carries, the mount points called
\* for it between enter_handler and exit_handler, and what time.time()
\* returns during each of these calls, the clock not set back meanwhile
Profiles ==
    { [endpoint |-> "authenticate", debug |-> TRUE, starttime |-> 1,
       environ |-> DictOf({<<REMOTE_USER, USER_ENV>>}),
       headers |-> EmptyDict,
       steps |-> <<"filter_auth_postdata", "filter_result">>,
       clock |-> <<2, 3>>,
       result |-> EmptyDict],
      [endpoint |-> "query", debug |-> FALSE, starttime |-> 2,
       environ |-> EmptyDict,
       headers |-> DictOf({<<X_REMOTE_USER_HEADER, USER_X>>}),
       steps |-> <<"filter_auth_postdata", "filter_cqp_input",
                   "filter_cqp_output", "filter_cqp_input",
                   "filter_cqp_output", "filter_result">>,
       clock |-> <<3, 4, 6, 7, 10, 11>>,
       result |-> [corpus_hits |-> <<"7">>]],
      [endpoint |-> "authenticate", debug |-> FALSE, starttime |-> 2,
       environ |-> EmptyDict,
       headers |-> EmptyDict,
       steps |-> <<"log", "filter_result">>,
       clock |-> <<3, 4>>,
       result |-> EmptyDict] }

NoProfile ==
    [endpoint |-> "", debug |-> FALSE, starttime |-> 0,
     environ |-> EmptyDict, headers |-> EmptyDict, steps |-> <<>>,
     clock |-> <<>>, result |-> EmptyDict]

NoLogger == [request |-> 0, starttime |-> 0, level |-> ""]

\* A slot with no request in it
IdleSlot ==
    [live |-> FALSE, addr |-> 0, req |-> NoProfile, pos |-> 0,
     failed |-> FALSE, filtered |-> FALSE, seen |-> NoLogger,
     result |-> EmptyDict, exitL |-> FALSE, exitS |-> FALSE,
     reported |-> <<>>]

\* The request object of a slot, as the mount points get it
Request(s) ==
    [addr |-> s.addr, endpoint |-> s.req.endpoint, environ |-> s.req.environ,
     headers |-> s.req.headers]

\* _get_request_id with one id for all the requests of the process
GetRequestId_Process(request) == 0

\* _get_request_id (lines 197-200): id(request), the address of the object
GetRequestId(request) == request.addr

\* _init_logging (lines 137-155) on the dicts st
InitLogging(st, request, starttime, debug) ==
    LET request_id == GetRequestId(request)
        logger == [request |-> request_id, starttime |-> starttime,
                   level |-> IF LOG_ENABLE_DEBUG_PARAM /\ debug
                             THEN "DEBUG" ELSE LOG_LEVEL]
    IN [loggers |-> DictSet(st.loggers, request_id, logger),
        logdata |-> DictSet(st.logdata, request_id, EmptyDict),
        raised |-> FALSE, seen |-> logger]

\* The outcome of a handler that raises: the dicts as they are
HandlerRaises(st) ==
    [loggers |-> st.loggers, logdata |-> st.logdata, raised |-> TRUE,
     seen |-> NoLogger]

\* _set_logdata (lines 168-178) for a value that is not a function
SetLogdata(st, request, key, value) ==
    LET request_id == GetRequestId(request) IN
    IF request_id \notin DOMAIN st.logdata
    THEN HandlerRaises(st)
    ELSE [st EXCEPT !.logdata = DictSet(st.logdata, request_id,
                         DictSet(st.logdata[request_id], key, value))]

\* _get_logger (lines 202-205) and then the rest of a handler
WithLogger(st, request, rest) ==
    IF GetRequestId(request) \notin DOMAIN st.loggers
    THEN HandlerRaises(st)
    ELSE [rest EXCEPT !.seen = IF rest.raised THEN NoLogger
                                ELSE st.loggers[GetRequestId(request)]]

Quiet(st) ==
    [loggers |-> st.loggers, logdata |-> st.logdata, raised |-> FALSE,
     seen |-> NoLogger]

\* enter_handler (lines 215-254)
EnterHandler(st, request, starttime, debug) ==
    LET s1 == InitLogging(st, request, starttime, debug)
        s2 == SetLogdata(s1, request, "cqp_time_sum", 0)
    IN [s2 EXCEPT !.seen = s1.seen]

\* filter_cqp_input (lines 280-284); now is time.time()
FilterCqpInput(st, request, now) ==
    WithLogger(st, request,
               SetLogdata(Quiet(st), request, "cqp_start_time", now))

\* filter_cqp_output keeping the time of the last CQP call instead of
\* adding it to the sum
FilterCqpOutput_LastOnly(st, request, now) ==
    LET request_id == GetRequestId(request) IN
    IF \/ request_id \notin DOMAIN st.logdata
       \/ "cqp_start_time" \notin DOMAIN st.logdata[request_id]
    THEN HandlerRaises(st)
    ELSE WithLogger(st, request,
                    SetLogdata(Quiet(st), request, "cqp_time_sum",
                               now - st.logdata[request_id]["cqp_start_time"]))

\* filter_cqp_output (lines 286-294); now is time.time()
FilterCqpOutput(st, request, now) ==
    LET request_id == GetRequestId(request) IN
    IF \/ request_id \notin DOMAIN st.logdata
       \/ "cqp_start_time" \notin DOMAIN st.logdata[request_id]
    THEN HandlerRaises(st)
    ELSE LET data == st.logdata[request_id]
             cqp_time == now - data["cqp_start_time"]
             sum == IF "cqp_time_sum" \in DOMAIN data
                    THEN data["cqp_time_sum"] ELSE 0
         IN WithLogger(st, request,
                       SetLogdata(Quiet(st), request, "cqp_time_sum",
                                  sum + cqp_time))

\* filter_sql (lines 296-299), log (lines 301-315) and filter_result
\* (lines 268-278) of KorpLogger: the logger of the request is looked up
\* and written to
LogWithLogger(st, request) == WithLogger(st, request, Quiet(st))

\* _end_logging (lines 157-161)
EndLogging(st, request) ==
    LET request_id == GetRequestId(request) IN
    IF request_id \notin DOMAIN st.loggers
    THEN HandlerRaises(st)
    ELSE IF request_id \notin DOMAIN st.logdata
    THEN HandlerRaises([st EXCEPT !.loggers = DictDel(st.loggers, request_id)])
    ELSE [loggers |-> DictDel(st.loggers, request_id),
          logdata |-> DictDel(st.logdata, request_id),
          raised |-> FALSE, seen |-> NoLogger]

\* The values exit_handler logs as "CQP-time-total" (lines 258-260), none
\* when the request has no logger or no log data
CqpTimeTotal(st, request) ==
    LET request_id == GetRequestId(request) IN
    IF request_id \in DOMAIN st.loggers /\ request_id \in DOMAIN st.logdata
    THEN <<DictGet(st.logdata[request_id], "cqp_time_sum")>>
    ELSE <<>>

\* exit_handler of KorpLogger (lines 256-266); loadavg is what
\* os.getloadavg() does: it returns the load or raises OSError
LoggerExitHandler(st, request, loadavg) ==
    LET request_id == GetRequestId(request) IN
    IF \/ request_id \notin DOMAIN st.loggers
       \/ request_id \notin DOMAIN st.logdata
       \/ loadavg = "OSError"
    THEN HandlerRaises(st)
    ELSE WithLogger(st, request, EndLogging(Quiet(st), request))

\* exit_handler of ShibbolethAuthorizer (lines 25-28)
ShibExitHandler(username, request) ==
    IF RequestKey(request) \in DOMAIN username
    THEN DictDel(username, RequestKey(request))
    ELSE username

\* A filter_result that adds the username to the result of any endpoint
ShibFilterResult_AnyEndpoint(result, request, username) ==
    DictSet(result, "username", DictGet(username, RequestKey(request)))

\* filter_result of ShibbolethAuthorizer (lines 30-35)
ShibFilterResult(result, request, username) ==
    IF request.endpoint = "authenticate"
    THEN DictSet(result, "username", DictGet(username, RequestKey(request)))
    ELSE result

-----------------------------------------------------------------------------
(* The requests of one process *)

InitReq ==
    /\ authDb = CHOOSE db \in Databases : TRUE
    /\ authReq = NoAuthReq
    /\ authRes = NoResult
    /\ connection = 0
    /\ openConns = {}
    /\ connects = 0
    /\ persistent = TRUE
    /\ pcReq = NoPcReq
    /\ pcRes = NoPcResult
    /\ idemReq = NoIdemReq
    /\ idemRes1 = NoResult
    /\ idemRes2 = NoResult
    /\ shibEnv = NoShibEnv
    /\ shibIn = NoPostdata
    /\ shibOut = NoShibOut
    /\ threads = NoThreads
    /\ requests = [r \in Slots |-> IdleSlot]
    /\ loggers = EmptyDict
    /\ logdata = EmptyDict
    /\ usernames = EmptyDict
    /\ payload = NoPayload
    /\ pipeline = NoPipeline
    /\ levels = NoLevels
    /\ conf = NoConf
    /\ authLog = NoAuthLog

LoggerDicts == [loggers |-> loggers, logdata |-> logdata]

\* The mount point called next for the request of a slot
NextStep(s) ==
    IF s.live /\ ~s.failed /\ s.pos < Len(s.req.steps)
    THEN s.req.steps[s.pos + 1]
    ELSE "none"

\* What a call of a KorpLogger handler leaves in the slot: an exception
\* ends the resolution of the request
AfterHandler(s, out) ==
    IF out.raised
    THEN [s EXCEPT !.failed = TRUE, !.pos = Len(s.req.steps)]
    ELSE [s EXCEPT !.pos = @ + 1, !.seen = out.seen]

\* Whether the exit handlers are due for the request of a slot
ExitPending(s) == s.live /\ (s.failed \/ s.pos = Len(s.req.steps))

\* A request arrives and enter_handler is called for it
EnterHandlerCall(r) ==
    /\ ~requests[r].live
    /\ \E p \in Profiles :
          LET s == [IdleSlot EXCEPT !.live = TRUE, !.addr = r, !.req = p,
                                    !.result = p.result]
              out == EnterHandler(LoggerDicts, Request(s), p.starttime, p.debug)
          IN /\ requests' = [requests EXCEPT ![r] =
                                [s EXCEPT !.seen = out.seen,
                                          !.failed = out.raised]]
             /\ loggers' = out.loggers
             /\ logdata' = out.logdata
    /\ UNCHANGED <<restVars, authVars, pcVars, idemVars, shibVars, concVars, usernames>>

FilterAuthPostdataStep(r) ==
    /\ NextStep(requests[r]) = "filter_auth_postdata"
    /\ usernames' = FilterAuthPostdata(EmptyDict, Request(requests[r]),
                                       usernames).username
    /\ requests' = [requests EXCEPT ![r].pos = @ + 1]
    /\ UNCHANGED <<restVars, authVars, pcVars, idemVars, shibVars, concVars, loggers,
                   logdata>>

FilterCqpInputCall(r) ==
    /\ NextStep(requests[r]) = "filter_cqp_input"
    /\ LET s == requests[r]
           out == FilterCqpInput(LoggerDicts, Request(s),
                                 s.req.clock[s.pos + 1])
       IN /\ requests' = [requests EXCEPT ![r] = AfterHandler(s, out)]
          /\ loggers' = out.loggers
          /\ logdata' = out.logdata
    /\ UNCHANGED <<restVars, authVars, pcVars, idemVars, shibVars, concVars, usernames>>

FilterCqpOutputCall(r) ==
    /\ NextStep(requests[r]) = "filter_cqp_output"
    /\ LET s == requests[r]
           out == FilterCqpOutput(LoggerDicts, Request(s),
                                  s.req.clock[s.pos + 1])
       IN /\ requests' = [requests EXCEPT ![r] = AfterHandler(s, out)]
          /\ loggers' = out.loggers
          /\ logdata' = out.logdata
    /\ UNCHANGED <<restVars, authVars, pcVars, idemVars, shibVars, concVars, usernames>>

\* The mount point log, called by another plugin for the request
LogCall(r) ==
    /\ NextStep(requests[r]) = "log"
    /\ LET s == requests[r]
           out == LogWithLogger(LoggerDicts, Request(s))
       IN /\ requests' = [requests EXCEPT ![r] = AfterHandler(s, out)]
          /\ loggers' = out.loggers
          /\ logdata' = out.logdata
    /\ UNCHANGED <<restVars, authVars, pcVars, idemVars, shibVars, concVars, usernames>>

\* The mount point filter_result: that of ShibbolethAuthorizer and that of
\* KorpLogger
FilterResultCall(r) ==
    /\ NextStep(requests[r]) = "filter_result"
    /\ LET s == requests[r]
           out == LogWithLogger(LoggerDicts, Request(s))
           s1 == [s EXCEPT !.filtered = TRUE,
                           !.result = ShibFilterResult(s.result, Request(s),
                                                       usernames)]
       IN /\ requests' = [requests EXCEPT ![r] = AfterHandler(s1, out)]
          /\ loggers' = out.loggers
          /\ logdata' = out.logdata
    /\ UNCHANGED <<restVars, authVars, pcVars, idemVars, shibVars, concVars, usernames>>

\* The resolution of the request raises an error: no further mount point
\* is called for it before the exit handlers
ResolutionFails(r) ==
    /\ NextStep(requests[r]) # "none"
    /\ requests' = [requests EXCEPT ![r].failed = TRUE,
                                    ![r].pos = Len(requests[r].req.steps)]
    /\ UNCHANGED <<restVars, authVars, pcVars, idemVars, shibVars, concVars, loggers,
                   logdata, usernames>>

LoggerExitHandlerCall(r) ==
    /\ ExitPending(requests[r])
    /\ ~requests[r].exitL
    /\ \E loadavg \in {"ok", "OSError"} :
          LET out == LoggerExitHandler(LoggerDicts, Request(requests[r]),
                                       loadavg)
          IN /\ loggers' = out.loggers
             /\ logdata' = out.logdata
    /\ requests' = [requests EXCEPT
                        ![r].exitL = TRUE,
                        ![r].reported = CqpTimeTotal(LoggerDicts,
                                                     Request(requests[r]))]
    /\ UNCHANGED <<restVars, authVars, pcVars, idemVars, shibVars, concVars, usernames>>

ShibExitHandlerCall(r) ==
    /\ ExitPending(requests[r])
    /\ ~requests[r].exitS
    /\ usernames' = ShibExitHandler(usernames, Request(requests[r]))
    /\ requests' = [requests EXCEPT ![r].exitS = TRUE]
    /\ UNCHANGED <<restVars, authVars, pcVars, idemVars, shibVars, concVars, loggers,
                   logdata>>

\* The request is over and its request object is released
EndRequest(r) ==
    /\ requests[r].live
    /\ requests[r].exitL
    /\ requests[r].exitS
    /\ requests' = [requests EXCEPT ![r] = IdleSlot]
    /\ UNCHANGED <<restVars, authVars, pcVars, idemVars, shibVars, concVars, loggers,
                   logdata, usernames>>

NextReq ==
    \E r \in Slots :
        \/ EnterHandlerCall(r)
        \/ FilterAuthPostdataStep(r)
        \/ FilterCqpInputCall(r)
        \/ FilterCqpOutputCall(r)
        \/ LogCall(r)
        \/ FilterResultCall(r)
        \/ ResolutionFails(r)
        \/ LoggerExitHandlerCall(r)
        \/ ShibExitHandlerCall(r)
        \/ EndRequest(r)

SpecReq == InitReq /\ [][NextReq]_vars

-----------------------------------------------------------------------------
(* Claims about the per-request state of the plugins, under SpecReq *)

\* The logger enter_handler of the request of a slot creates
OwnLogger(s) ==
    [request |-> s.addr, starttime |-> s.req.starttime,
     level |-> IF s.req.debug THEN "DEBUG" ELSE "INFO"]

\* The log data of a request after the first k of its mount-point calls
RECURSIVE OwnLogdata(_, _)
OwnLogdata(p, k) ==
    IF k = 0 THEN [cqp_time_sum |-> 0]
    ELSE LET before == OwnLogdata(p, k - 1) IN
         CASE p.steps[k] = "filter_cqp_input" ->
                [cqp_time_sum |-> before.cqp_time_sum,
                 cqp_start_time |-> p.clock[k]]
           [] p.steps[k] = "filter_cqp_output" ->
                [cqp_time_sum |-> before.cqp_time_sum
                                    + (p.clock[k] - p.clock[k - 1]),
                 cqp_start_time |-> p.clock[k - 1]]
           [] OTHER -> before

\* Both exit handlers have been invoked for the request of a slot
ExitHandlersInvoked(s) == s.live /\ s.exitL /\ s.exitS

\* C11: once the exit handlers of the plugins have been invoked for a
\* request, no entry for it remains in KorpLogger._loggers,
\* KorpLogger._logdata or ShibbolethAuthorizer._username, also when the
\* resolution or a step of an exit handler raised an error
C11_ReleasedAtExit ==
    \A r \in Slots :
        ExitHandlersInvoked(requests[r]) =>
            /\ requests[r].addr \notin DOMAIN loggers
            /\ requests[r].addr \notin DOMAIN logdata
            /\ requests[r].addr \notin DOMAIN usernames

\* C12: under every interleaving of the calls of the requests in flight,
\* the logger and the log data a request has in _loggers and _logdata, and
\* the logger its calls get, are those made by its own enter_handler and
\* changed by its own calls only
C12_OwnLoggerState ==
    \A r \in Slots :
        LET s == requests[r] IN
        s.live =>
            /\ s.seen = OwnLogger(s)
            /\ ~s.exitL =>
                  /\ s.addr \in DOMAIN loggers
                  /\ s.addr \in DOMAIN logdata
                  /\ loggers[s.addr] = OwnLogger(s)
                  /\ IF s.failed
                     THEN \E k \in 0..Len(s.req.steps) :
                             logdata[s.addr] = OwnLogdata(s.req, k)
                     ELSE logdata[s.addr] = OwnLogdata(s.req, s.pos)

\* Two requests in flight with loggers of different levels, one of them
\* past its CQP calls
C12_Witness ==
    \E r1, r2 \in Slots :
        /\ r1 # r2
        /\ requests[r1].live /\ requests[r2].live
        /\ ~requests[r1].failed /\ ~requests[r2].failed
        /\ ~requests[r1].exitL /\ ~requests[r2].exitL
        /\ requests[r1].seen.level = "DEBUG"
        /\ requests[r2].seen.level = "INFO"
        /\ requests[r1].pos >= 1
        /\ requests[r2].pos >= 3
        /\ requests[r2].req.steps[3] = "filter_cqp_output"
        /\ logdata[requests[r2].addr].cqp_time_sum >= 2
        /\ logdata[requests[r1].addr].cqp_time_sum = 0

\* The username filter_auth_postdata of the request itself has saved
\* before its filter_result, None when it was not called for the request
OwnUsername(s) ==
    IF \E i \in 1..Len(s.req.steps) : s.req.steps[i] = "filter_auth_postdata"
    THEN GetValue(Request(s), REMOTE_USER)
    ELSE None

\* C17: filter_result of ShibbolethAuthorizer sets result["username"] of an
\* "authenticate" request to the username the same request has saved (None
\* when it saved none), never to that of another request in flight, and
\* leaves the result of a request with another endpoint unchanged
C17_OwnUsernameInResult ==
    \A r \in Slots :
        LET s == requests[r] IN
        (s.live /\ s.filtered) =>
            IF s.req.endpoint = "authenticate"
            THEN s.result = DictSet(s.req.result, "username", OwnUsername(s))
            ELSE s.result = s.req.result

\* An "authenticate" request has its own username in its result while
\* another request in flight has saved another username, and an
\* "authenticate" request that saved none has None beside it
C17_Witness ==
    \E r1, r2 \in Slots :
        /\ r1 # r2
        /\ requests[r1].live /\ requests[r1].filtered
        /\ requests[r1].req.endpoint = "authenticate"
        /\ requests[r2].live /\ ~requests[r2].exitS
        /\ requests[r2].addr \in DOMAIN usernames
        /\ usernames[requests[r2].addr] = USER_X
        /\ \/ requests[r1].result["username"] = USER_ENV
           \/ requests[r1].result["username"] = None

-----------------------------------------------------------------------------
(* Claims about the calls of the store, under SpecAuth and SpecPc *)

\* The kinds of the statements executed on the cursor in the last call
CallKinds == [i \in 1..Len(authRes.calls) |-> authRes.calls[i].kind]

\* C26: for a non-empty username and an available store, the allow-list of
\* academic users is consulted exactly when academic is false after the
\* classification by attributes, with the exact username as its key, a hit
\* sets academic and nothing else changes it, academic never goes from true
\* to false, and the store calls are the permission query alone when the
\* user is academic by attributes and the lookup followed by the permission
\* query otherwise
C26_AllowListConsulted ==
    (authReq.called /\ authReq.username # <<>> /\ authReq.down = "none") =>
        /\ authRes.academic0 => authRes.academic
        /\ authRes.academic0 => CallKinds = <<"query">>
        /\ ~authRes.academic0 =>
              /\ CallKinds = <<"lookup", "query">>
              /\ authRes.calls[1].params = <<authReq.username>>
              /\ authRes.academic =
                    (\E p \in authDb.auth_academic :
                        SqlEq(authDb, p, authReq.username))

\* C21: a call of filter_protected_corpora that ends with the
\* store-unavailable error (the first connect refused, the forced reconnect
\* refused, or both fetches failed with a connection error) leaves in the
\* caller's list exactly the entries it was passed with
C21_NoDefaultResult ==
    (pcReq.called /\ pcRes.outcome = "raise"
        /\ pcRes.error = "ConnectionError") =>
        pcRes.list = pcReq.protected_corpora

\* Both fetches of a call with a non-empty list failed and the call raised
C21_Witness ==
    /\ pcReq.called
    /\ pcReq.protected_corpora # <<>>
    /\ Len(pcRes.fetches) = 2
    /\ pcRes.outcome = "raise"
    /\ pcRes.error = "ConnectionError"

\* C27: a call of filter_protected_corpora that returns has left in the
\* list the entries it was passed with, in their order, followed by the
\* corpora of the one fetch that succeeded, each once, also when the first
\* fetch failed and the retry succeeded
C27_ExtendedOnce ==
    (pcReq.called /\ pcRes.outcome = "return") =>
        pcRes.list = pcReq.protected_corpora \o pcReq.rows

\* The first fetch failed and the retry succeeded, the list not empty
C27_Witness ==
    /\ pcReq.called
    /\ pcReq.protected_corpora # <<>>
    /\ Len(pcRes.fetches) = 2
    /\ pcRes.fetches[1] # "ok"
    /\ pcRes.fetches[2] = "ok"
    /\ pcRes.outcome = "return"

\* C30: when establishing the connection fails, _connect sets _connection
\* to None and returns None, and filter_protected_corpora skips the fetch
\* and returns the list unchanged
C30_ConnectFailureReturnsNone ==
    (pcReq.called /\ pcRes.connected = <<"refused">>
        /\ pcRes.reconnects = 0) =>
        /\ connection = 0
        /\ pcRes.fetches = <<>>
        /\ pcRes.outcome = "return"
        /\ pcRes.list = pcReq.protected_corpora

-----------------------------------------------------------------------------
(* Claims about the CQP time of a request, under SpecReq *)

\* The sum of the times between the filter_cqp_input and filter_cqp_output
\* calls among the first k mount-point calls of a request
RECURSIVE OwnCqpTime(_, _)
OwnCqpTime(p, k) ==
    IF k = 0 THEN 0
    ELSE OwnCqpTime(p, k - 1)
         + IF p.steps[k] = "filter_cqp_output"
           THEN p.clock[k] - p.clock[k - 1]
           ELSE 0

\* The CQP time total of a request is reported and its resolution was not
\* cut short
ReportedInFull(s) == s.live /\ s.exitL /\ ~s.failed

\* C29 (the total): the CQP time total exit_handler reports for a request
\* is the sum, from 0, of the times between its own filter_cqp_input and
\* filter_cqp_output calls, whatever CQP calls of other requests are
\* interleaved with them
C29_OwnCqpTimeTotal ==
    \A r \in Slots :
        LET s == requests[r] IN
        /\ ReportedInFull(s) =>
              s.reported = <<OwnCqpTime(s.req, Len(s.req.steps))>>
        /\ (s.live /\ s.exitL /\ s.failed) =>
              \E k \in 0..Len(s.req.steps) :
                  s.reported = <<OwnCqpTime(s.req, k)>>

\* The CQP time of a request in flight does not decrease
CqpTimeNotDecreasing ==
    \A r \in Slots :
        (/\ requests[r].live /\ requests'[r].live
         /\ requests[r].addr \in DOMAIN logdata
         /\ requests[r].addr \in DOMAIN logdata'
         /\ "cqp_time_sum" \in DOMAIN logdata[requests[r].addr]) =>
            /\ "cqp_time_sum" \in DOMAIN logdata'[requests[r].addr]
            /\ logdata'[requests[r].addr].cqp_time_sum
                  >= logdata[requests[r].addr].cqp_time_sum

-----------------------------------------------------------------------------
(* src/korpplugins/protectedcorporadb/__init__.py: the connection          *)
(* parameters __init__ makes of the configuration                          *)

DBCONN_PREFIX == <<"D", "B", "C", "O", "N", "N", "_">>
DBCONN_PARAMS ==
    <<"D", "B", "C", "O", "N", "N", "_", "P", "A", "R", "A", "M", "S">>
DBCONN_HOST == <<"D", "B", "C", "O", "N", "N", "_", "H", "O", "S", "T">>
DBCONN_USER == <<"D", "B", "C", "O", "N", "N", "_", "U", "S", "E", "R">>
DBCONN_USE_UNICODE ==
    <<"D", "B", "C", "O", "N", "N", "_", "U", "S", "E", "_", "U", "N", "I",
      "C", "O", "D", "E">>
DBCONN_UNIX_SOCKET ==
    <<"D", "B", "C", "O", "N", "N", "_", "U", "N", "I", "X", "_", "S", "O",
      "C", "K", "E", "T">>
LICENCE_TABLE ==
    <<"L", "I", "C", "E", "N", "C", "E", "_", "T", "A", "B", "L", "E">>

\* s.split(sep, 1)
SplitOnce(s, sep) ==
    IF \A i \in 1..Len(s) : s[i] # sep
    THEN <<s>>
    ELSE LET i == CHOOSE k \in 1..Len(s) :
                      s[k] = sep /\ \A j \in 1..(k - 1) : s[j] # sep
         IN <<SubSeq(s, 1, i - 1), SubSeq(s, i + 1, Len(s))>>

\* The name of the parameter of a setting: key.lower().split("_", 1)[1]
\* (line 60)
ParamName(key) == SplitOnce(Lower(key), "_")[2]

\* The names of the settings that make the parameters (lines 61-63)
ParamSettings(pluginconf) ==
    {key \in DOMAIN pluginconf :
        StartsWith(key, DBCONN_PREFIX) /\ key # DBCONN_PARAMS}

\* self._conn_params (lines 57-63): DBCONN_PARAMS if it is not empty, else
\* the dict of the individual settings
ConnParams(pluginconf) ==
    IF pluginconf[DBCONN_PARAMS] # EmptyDict
    THEN pluginconf[DBCONN_PARAMS]
    ELSE [name \in {ParamName(key) : key \in ParamSettings(pluginconf)} |->
             pluginconf[CHOOSE key \in ParamSettings(pluginconf) :
                            ParamName(key) = name]]

\* The configurations: DBCONN_PARAMS empty, with some of the parameters and
\* with a parameter no individual setting names; DBCONN_UNIX_SOCKET set or
\* left commented out
ParamDicts ==
    {EmptyDict,
     DictOf({<<<<"h", "o", "s", "t">>, <<"h", "2">>>>}),
     DictOf({<<<<"h", "o", "s", "t">>, <<"h", "2">>>>,
             <<<<"u", "s", "e", "r">>, <<"u", "2">>>>}),
     DictOf({<<<<"p", "o", "r", "t">>, <<"1">>>>})}

PluginConfs ==
    {[key \in {DBCONN_PARAMS, DBCONN_HOST, DBCONN_USER, DBCONN_USE_UNICODE,
               LICENCE_TABLE} \cup socket |->
         CASE key = DBCONN_PARAMS -> own
           [] key = DBCONN_HOST -> host
           [] key = DBCONN_USER -> user
           [] key = DBCONN_USE_UNICODE -> unicode
           [] key = DBCONN_UNIX_SOCKET -> <<"/", "s">>
           [] OTHER -> <<"t">>] :
        own \in ParamDicts,
        host \in {<<"h", "1">>, <<"h", "3">>},
        user \in {<<"u", "1">>, <<"u", "3">>},
        unicode \in {<<"T">>, <<"F">>},
        socket \in {{}, {DBCONN_UNIX_SOCKET}}}

InitConf ==
    /\ conf \in {[called |-> FALSE, pluginconf |-> c, params |-> EmptyDict] :
                    c \in PluginConfs}
    /\ authDb = CHOOSE db \in Databases : TRUE
    /\ authReq = NoAuthReq
    /\ authRes = NoResult
    /\ connection = 0
    /\ openConns = {}
    /\ connects = 0
    /\ persistent = TRUE
    /\ pcReq = NoPcReq
    /\ pcRes = NoPcResult
    /\ idemReq = NoIdemReq
    /\ idemRes1 = NoResult
    /\ idemRes2 = NoResult
    /\ shibEnv = NoShibEnv
    /\ shibIn = NoPostdata
    /\ shibOut = NoShibOut
    /\ threads = NoThreads
    /\ requests = NoRequests
    /\ loggers = EmptyDict
    /\ logdata = EmptyDict
    /\ usernames = EmptyDict
    /\ payload = NoPayload
    /\ pipeline = NoPipeline
    /\ levels = NoLevels
    /\ authLog = NoAuthLog

\* ProtectedCorporaDatabase() is constructed
InitPluginCall ==
    /\ ~conf.called
    /\ conf' = [conf EXCEPT !.called = TRUE,
                            !.params = ConnParams(conf.pluginconf)]
    /\ UNCHANGED <<authVars, pcVars, idemVars, shibVars, concVars, reqVars,
                   payload, pipeline, levels, authLog>>

NextConf == InitPluginCall

SpecConf == InitConf /\ [][NextConf]_vars

\* The parameter each individual setting stands for, as the configuration
\* template names it
ClaimedParam(key) ==
    CASE key = DBCONN_HOST -> <<"h", "o", "s", "t">>
      [] key = DBCONN_USER -> <<"u", "s", "e", "r">>
      [] key = DBCONN_USE_UNICODE ->
            <<"u", "s", "e", "_", "u", "n", "i", "c", "o", "d", "e">>
      [] key = DBCONN_UNIX_SOCKET ->
            <<"u", "n", "i", "x", "_", "s", "o", "c", "k", "e", "t">>
      [] OTHER -> <<>>

\* The individual settings of a configuration
IndividualSettings(pluginconf) ==
    DOMAIN pluginconf
       \cap {DBCONN_HOST, DBCONN_USER, DBCONN_USE_UNICODE, DBCONN_UNIX_SOCKET}

\* C25: with DBCONN_PARAMS empty the connection parameters are those of the
\* individual settings DBCONN_KEY, each under the name "key"; with
\* DBCONN_PARAMS not empty a parameter it holds has its value of
\* DBCONN_PARAMS and a parameter it does not hold keeps the value of its
\* individual setting
C25_ConnectionParameters ==
    conf.called =>
        LET own == conf.pluginconf[DBCONN_PARAMS]
            settings == IndividualSettings(conf.pluginconf)
        IN /\ own = EmptyDict =>
                 /\ DOMAIN conf.params = {ClaimedParam(key) : key \in settings}
                 /\ \A key \in settings :
                       conf.params[ClaimedParam(key)] = conf.pluginconf[key]
           /\ own # EmptyDict =>
                 /\ \A name \in DOMAIN own :
                       /\ name \in DOMAIN conf.params
                       /\ conf.params[name] = own[name]
                 /\ \A key \in settings :
                       ClaimedParam(key) \notin DOMAIN own =>
                           /\ ClaimedParam(key) \in DOMAIN conf.params
                           /\ conf.params[ClaimedParam(key)]
                                 = conf.pluginconf[key]

-----------------------------------------------------------------------------
(* src/auth/auth.py: the endpoint / of the authorization server *)

SHORT == <<"s", "h", "o", "r", "t">>

\* The corpora as a list whenever a format is given
EncodeCorpora_ListForAnyFormat(format, corpora) ==
    IF ~Truthy(format)
    THEN [kind |-> "dict",
          items |-> [c \in Range(corpora) |-> [read |-> TRUE]]]
    ELSE [kind |-> "list", items |-> corpora]

\* Lines 79-82: the corpora as the response holds them, a dict with the
\* values {"read": True} unless format is "short"; format is
\* args.get("format")
EncodeCorpora(format, corpora) ==
    IF format # SHORT
    THEN [kind |-> "dict",
          items |-> [c \in Range(corpora) |-> [read |-> TRUE]]]
    ELSE [kind |-> "list", items |-> corpora]

NoResponse ==
    [status |-> 0, authenticated |-> FALSE,
     corpora |-> [kind |-> "list", items |-> <<>>], username |-> None]

\* auth (lines 52-94) for the arguments args, resolved being what
\* _get_permitted_resources produced for them; an exception of the resolver
\* makes the response an internal server error
Auth(args, resolved) ==
    IF resolved.outcome = "raise"
    THEN [NoResponse EXCEPT !.status = 500]
    ELSE [status |-> 200,
          authenticated |-> resolved.authenticated,
          corpora |-> EncodeCorpora(DictGet(args, "format"), resolved.corpora),
          username |-> DictGet(args, "remote_user")]

\* The arguments of the requests
RouteArgs ==
    {DictOf({<<"remote_user", u>>, <<"affiliation", a>>,
             <<"entitlement", e>>, <<"format", f>>}) :
        u \in {None, <<>>, <<"a", "@", "e", "x", ".", "e", "d", "u">>,
               <<"b", "@", "e", "x", ".", "e", "d", "u">>},
        a \in {None, <<"f", "a", "c", "u", "l", "t", "y">>},
        e \in {None, LBR_ID_1},
        f \in {None, <<>>, SHORT, <<"l", "o", "n", "g">>}}

InitRoute ==
    /\ authDb \in Databases
    /\ authReq = NoAuthReq
    /\ authRes = NoResult
    /\ connection = 0
    /\ openConns = {}
    /\ connects = 0
    /\ persistent = TRUE
    /\ pcReq = NoPcReq
    /\ pcRes = NoPcResult
    /\ idemReq = NoIdemReq
    /\ idemRes1 = NoResult
    /\ idemRes2 = NoResult
    /\ shibEnv = NoShibEnv
    /\ shibIn = NoPostdata
    /\ shibOut = NoShibOut
    /\ threads = NoThreads
    /\ requests = NoRequests
    /\ loggers = EmptyDict
    /\ logdata = EmptyDict
    /\ usernames = EmptyDict
    /\ payload = NoPayload
    /\ pipeline = NoPipeline
    /\ levels = NoLevels
    /\ conf = NoConf
    /\ authLog = NoAuthLog

\* One request of the endpoint /
AuthCall ==
    /\ ~payload.called
    /\ \E args \in RouteArgs, down \in {"none", "query"} :
          \E resolved \in GetPermittedResources(ArgsGet(args, "remote_user"),
                                                ArgsGet(args, "affiliation"),
                                                ArgsGet(args, "entitlement"),
                                                authDb, down) :
              payload' = [called |-> TRUE, args |-> args,
                          resolved |-> resolved,
                          response |-> Auth(args, resolved)]
    /\ UNCHANGED <<authVars, pcVars, idemVars, shibVars, concVars, reqVars,
                   pipeline, levels, conf, authLog>>

NextRoute == AuthCall

SpecRoute == InitRoute /\ [][NextRoute]_vars

\* C22: the response holds the permitted corpora as a bare list when the
\* argument format is "short" and else as a mapping of each identifier to
\* {read: true}, each with exactly the identifiers the resolver returned;
\* authenticated is the resolver's, and permitted_resources.username is the
\* argument remote_user, null when the request has none
C22_DecisionPayload ==
    (payload.called /\ payload.resolved.outcome = "return") =>
        LET format == DictGet(payload.args, "format")
            corpora == payload.response.corpora
        IN /\ payload.response.status = 200
           /\ format = SHORT =>
                 /\ corpora.kind = "list"
                 /\ Range(corpora.items) = Range(payload.resolved.corpora)
           /\ format # SHORT =>
                 /\ corpora.kind = "dict"
                 /\ DOMAIN corpora.items = Range(payload.resolved.corpora)
                 /\ \A c \in DOMAIN corpora.items :
                       corpora.items[c] = [read |-> TRUE]
           /\ payload.response.authenticated = payload.resolved.authenticated
           /\ payload.response.username =
                 IF "remote_user" \in DOMAIN payload.args
                 THEN payload.args["remote_user"]
                 ELSE None

\* A request with a user, with a format that is not "short", answered with
\* a mapping of some corpora
C22_Witness ==
    /\ payload.called
    /\ payload.resolved.outcome = "return"
    /\ payload.resolved.corpora # <<>>
    /\ DictGet(payload.args, "format") = <<"l", "o", "n", "g">>
    /\ payload.response.corpora.kind = "dict"
    /\ payload.response.username # None

-----------------------------------------------------------------------------
(* src/korpplugins/logger/__init__.py: LevelLoggerAdapter and the levels   *)
(* of the messages written for the requests in flight                      *)

\* The numeric value of a level of the module logging
LevelNo(level) ==
    CASE level = "DEBUG" -> 10
      [] level = "INFO" -> 20
      [] level = "WARNING" -> 30
      [] OTHER -> 0

LogLevels == {"DEBUG", "INFO", "WARNING"}

\* What LoggerAdapter.isEnabledFor of the standard library does, which
\* LevelLoggerAdapter inherits: it compares the level with
\* self.getEffectiveLevel() ("own_level", Python up to 3.7) or hands the
\* question to the underlying logger ("delegates", Python from 3.8)
Libraries == {"own_level", "delegates"}

\* LoggerAdapter.isEnabledFor, called on a LevelLoggerAdapter (line 99)
IsEnabledFor(library, adapterLevel, loggerLevel, level) ==
    IF library = "own_level"
    THEN LevelNo(level) >= LevelNo(adapterLevel)
    ELSE LevelNo(level) >= LevelNo(loggerLevel)

\* LevelLoggerAdapter.log (lines 88-101): whether the message is handed to
\* the handlers of the logger
AdapterLog(library, adapterLevel, loggerLevel, level) ==
    IsEnabledFor(library, adapterLevel, loggerLevel, level)

NoMessage == [slot |-> 0, call |-> "", level |-> "", emitted |-> FALSE]

InitLevels ==
    /\ levels \in {[library |-> l, logger |-> LOG_LEVEL, adapters |-> EmptyDict,
                    last |-> NoMessage] : l \in Libraries}
    /\ authDb = CHOOSE db \in Databases : TRUE
    /\ authReq = NoAuthReq
    /\ authRes = NoResult
    /\ connection = 0
    /\ openConns = {}
    /\ connects = 0
    /\ persistent = TRUE
    /\ pcReq = NoPcReq
    /\ pcRes = NoPcResult
    /\ idemReq = NoIdemReq
    /\ idemRes1 = NoResult
    /\ idemRes2 = NoResult
    /\ shibEnv = NoShibEnv
    /\ shibIn = NoPostdata
    /\ shibOut = NoShibOut
    /\ threads = NoThreads
    /\ requests = NoRequests
    /\ loggers = EmptyDict
    /\ logdata = EmptyDict
    /\ usernames = EmptyDict
    /\ payload = NoPayload
    /\ pipeline = NoPipeline
    /\ conf = NoConf
    /\ authLog = NoAuthLog

\* _init_logging makes the LevelLoggerAdapter of a request (lines 140-153)
InitLoggingCall(r) ==
    /\ r \notin DOMAIN levels.adapters
    /\ \E debug \in BOOLEAN :
          LET made == InitLogging([loggers |-> EmptyDict, logdata |-> EmptyDict],
                                  [addr |-> r], 0, debug).seen
          IN levels' = [levels EXCEPT
                 !.adapters = DictSet(@, r, [level |-> made.level,
                                             debug |-> debug, set |-> FALSE]),
                 !.last = [NoMessage EXCEPT !.slot = r, !.call = "init"]]
    /\ UNCHANGED <<authVars, pcVars, idemVars, shibVars, concVars, reqVars,
                   payload, pipeline, conf, authLog>>

\* LevelLoggerAdapter.setLevel (lines 82-83)
SetLevelCall(r) ==
    /\ r \in DOMAIN levels.adapters
    /\ ~levels.adapters[r].set
    /\ \E level \in LogLevels :
          levels' = [levels EXCEPT
              !.adapters[r].level = level,
              !.adapters[r].set = TRUE,
              !.last = [NoMessage EXCEPT !.slot = r, !.call = "setLevel"]]
    /\ UNCHANGED <<authVars, pcVars, idemVars, shibVars, concVars, reqVars,
                   payload, pipeline, conf, authLog>>

\* A handler logs a message of some level with the logger of its request
LogMessageCall(r) ==
    /\ r \in DOMAIN levels.adapters
    /\ \E level \in LogLevels :
          levels' = [levels EXCEPT
              !.last = [slot |-> r, call |-> "log", level |-> level,
                        emitted |-> AdapterLog(levels.library,
                                               levels.adapters[r].level,
                                               levels.logger, level)]]
    /\ UNCHANGED <<authVars, pcVars, idemVars, shibVars, concVars, reqVars,
                   payload, pipeline, conf, authLog>>

\* _end_logging (lines 157-161)
EndLoggingCall(r) ==
    /\ r \in DOMAIN levels.adapters
    /\ levels' = [levels EXCEPT
           !.adapters = DictDel(@, r),
           !.last = [NoMessage EXCEPT !.slot = r, !.call = "end"]]
    /\ UNCHANGED <<authVars, pcVars, idemVars, shibVars, concVars, reqVars,
                   payload, pipeline, conf, authLog>>

NextLevels ==
    \E r \in Slots :
        \/ InitLoggingCall(r)
        \/ SetLevelCall(r)
        \/ LogMessageCall(r)
        \/ EndLoggingCall(r)

SpecLevels == InitLevels /\ [][NextLevels]_vars

\* The level of each logger as made, and the messages emitted by level
OwnLevelInEffect ==
    /\ levels.logger = LOG_LEVEL
    /\ \A r \in DOMAIN levels.adapters :
          ~levels.adapters[r].set =>
              levels.adapters[r].level =
                  IF LOG_ENABLE_DEBUG_PARAM /\ levels.adapters[r].debug
                  THEN "DEBUG" ELSE LOG_LEVEL
    /\ levels.last.call = "log" =>
          (levels.last.emitted <=>
              LevelNo(levels.last.level)
                  >= LevelNo(levels.adapters[levels.last.slot].level))

\* Making or setting the level of a logger changes no other logger's level
OtherLevelsKept ==
    \A r \in DOMAIN levels.adapters \cap DOMAIN levels'.adapters :
        levels'.adapters[r].level # levels.adapters[r].level =>
            levels'.last.slot = r /\ levels'.last.call = "setLevel"

\* C24: the level of a request's logger is DEBUG exactly when
\* LOG_ENABLE_DEBUG_PARAM is set and the request has the argument debug,
\* and LOG_LEVEL otherwise; a message is emitted for a request exactly when
\* its level is at least the level of the request's logger; and making or
\* setting the level of one request's logger changes neither the level of
\* another request's logger nor that of the logger they share
C24_LevelPerRequest == []OwnLevelInEffect /\ [][OtherLevelsKept]_vars

-----------------------------------------------------------------------------
(* src/auth/auth.py: the root logger and the requests the server handles   *)
(* at the same time, each a sequence of the statements of auth and         *)
(* _get_permitted_resources that set the level of the root logger or log   *)

\* config.LOG_LEVEL of the authorization server: INFO
AUTH_LOG_LEVEL == "INFO"

\* Line 66: whether the request asks for debugging
Debugging(args) ==
    Lower(ArgsGet(args, "debug"))
        \in {<<"1">>, <<"t", "r", "u", "e">>, <<"y", "e", "s">>}

\* Lines 67-68: the level the request sets the root logger to
RootLevel(debugging) == IF debugging THEN "DEBUG" ELSE AUTH_LOG_LEVEL

\* logging.info and logging.debug: whether the root logger, at level
\* rootLevel, writes a message of the level
Emits(rootLevel, level) == LevelNo(level) >= LevelNo(rootLevel)

\* The arguments of the requests: all with a user, with and without debug
AuthLogArgs ==
    {DictOf({<<"remote_user", <<"a", "@", "e", "x", ".", "e", "d", "u">>>>,
             <<"debug", d>>}) :
        d \in {None, <<"T", "r", "u", "e">>, <<"0">>}}

NoAuthLogRequest == [pc |-> "none", args |-> EmptyDict]

\* The log after a call of logging.info or logging.debug by worker t:
\* user tells whether the message holds the remote_user of the request
Logged(log, rootLevel, t, level, item, user) ==
    IF Emits(rootLevel, level)
    THEN log \cup {[owner |-> t, item |-> item, user |-> user]}
    ELSE log

InitAuthLog ==
    /\ authLog = [level |-> AUTH_LOG_LEVEL,
                  reqs |-> [t \in Callers |-> NoAuthLogRequest],
                  log |-> {}]
    /\ authDb = CHOOSE db \in Databases : TRUE
    /\ authReq = NoAuthReq
    /\ authRes = NoResult
    /\ connection = 0
    /\ openConns = {}
    /\ connects = 0
    /\ persistent = TRUE
    /\ pcReq = NoPcReq
    /\ pcRes = NoPcResult
    /\ idemReq = NoIdemReq
    /\ idemRes1 = NoResult
    /\ idemRes2 = NoResult
    /\ shibEnv = NoShibEnv
    /\ shibIn = NoPostdata
    /\ shibOut = NoShibOut
    /\ threads = NoThreads
    /\ requests = NoRequests
    /\ loggers = EmptyDict
    /\ logdata = EmptyDict
    /\ usernames = EmptyDict
    /\ payload = NoPayload
    /\ pipeline = NoPipeline
    /\ levels = NoLevels
    /\ conf = NoConf

\* A request arrives at worker t (lines 59-62)
RequestArrives(t) ==
    /\ authLog.reqs[t].pc = "none"
    /\ \E args \in AuthLogArgs :
          authLog' = [authLog EXCEPT !.reqs[t] = [pc |-> "start", args |-> args]]
    /\ UNCHANGED <<authVars, pcVars, idemVars, shibVars, concVars, reqVars,
                   payload, pipeline, levels, conf>>

\* Lines 66-68
SetRootLevel(t) ==
    /\ authLog.reqs[t].pc = "start"
    /\ authLog' = [authLog EXCEPT
           !.level = RootLevel(Debugging(authLog.reqs[t].args)),
           !.reqs[t].pc = "level_set"]
    /\ UNCHANGED <<authVars, pcVars, idemVars, shibVars, concVars, reqVars,
                   payload, pipeline, levels, conf>>

\* Lines 69-75: the arguments, with remote_user only when debugging
LogArguments(t) ==
    /\ authLog.reqs[t].pc = "level_set"
    /\ authLog' = [authLog EXCEPT
           !.log = Logged(@, authLog.level, t, "INFO", "Arguments",
                          Debugging(authLog.reqs[t].args)),
           !.reqs[t].pc = "arguments_logged"]
    /\ UNCHANGED <<authVars, pcVars, idemVars, shibVars, concVars, reqVars,
                   payload, pipeline, levels, conf>>

\* Line 123
DebugUsername(t) ==
    /\ authLog.reqs[t].pc = "arguments_logged"
    /\ authLog' = [authLog EXCEPT
           !.log = Logged(@, authLog.level, t, "DEBUG", "Username", TRUE),
           !.reqs[t].pc = "username_logged"]
    /\ UNCHANGED <<authVars, pcVars, idemVars, shibVars, concVars, reqVars,
                   payload, pipeline, levels, conf>>

\* Lines 127-156: the cursor is obtained, the user is classified and looked
\* up in auth_academic; the worker waits for the database meanwhile
ClassifyAndLookUp(t) ==
    /\ authLog.reqs[t].pc = "username_logged"
    /\ authLog' = [authLog EXCEPT
           !.log = Logged(@, authLog.level, t, "DEBUG", "Is-Academic", FALSE),
           !.reqs[t].pc = "classified"]
    /\ UNCHANGED <<authVars, pcVars, idemVars, shibVars, concVars, reqVars,
                   payload, pipeline, levels, conf>>

\* Line 180: the statement, which holds the username
DebugSql(t) ==
    /\ authLog.reqs[t].pc = "classified"
    /\ authLog' = [authLog EXCEPT
           !.log = Logged(@, authLog.level, t, "DEBUG", "SQL", TRUE),
           !.reqs[t].pc = "sql_logged"]
    /\ UNCHANGED <<authVars, pcVars, idemVars, shibVars, concVars, reqVars,
                   payload, pipeline, levels, conf>>

\* Lines 182-184: the query is executed, the worker waiting for the
\* database, and the corpora are logged
QueryAndDebugCorpora(t) ==
    /\ authLog.reqs[t].pc = "sql_logged"
    /\ authLog' = [authLog EXCEPT
           !.log = Logged(@, authLog.level, t, "DEBUG", "Corpora", FALSE),
           !.reqs[t].pc = "queried"]
    /\ UNCHANGED <<authVars, pcVars, idemVars, shibVars, concVars, reqVars,
                   payload, pipeline, levels, conf>>

\* Lines 86-94: the result, logged before the username is added to it
\* unless debugging
LogResult(t) ==
    /\ authLog.reqs[t].pc = "queried"
    /\ authLog' = [authLog EXCEPT
           !.log = Logged(@, authLog.level, t, "INFO", "Result",
                          Debugging(authLog.reqs[t].args)),
           !.reqs[t].pc = "done"]
    /\ UNCHANGED <<authVars, pcVars, idemVars, shibVars, concVars, reqVars,
                   payload, pipeline, levels, conf>>

NextAuthLog ==
    \E t \in Callers :
        \/ RequestArrives(t)
        \/ SetRootLevel(t)
        \/ LogArguments(t)
        \/ DebugUsername(t)
        \/ ClassifyAndLookUp(t)
        \/ DebugSql(t)
        \/ QueryAndDebugCorpora(t)
        \/ LogResult(t)

SpecAuthLog == InitAuthLog /\ [][NextAuthLog]_vars

\* C28: with LOG_LEVEL at INFO, no message written for a request that does
\* not enable debug holds its remote_user, whatever requests are handled at
\* the same time, those that enable debug included
C28_NoUsernameLogged ==
    \A m \in authLog.log :
        ~Debugging(authLog.reqs[m.owner].args) => ~m.user

-----------------------------------------------------------------------------
(* The mount point filter_result: the dispatch of korppluginlib to the     *)
(* plugins loaded, with filter_result of ShibbolethAuthorizer and          *)
(* KorpLogger as the plugins define them                                   *)

\* A value passed along the plugins: a dict, or None
Some(d) == [isNone |-> FALSE, dict |-> d]
NoneValue == [isNone |-> TRUE, dict |-> EmptyDict]

PluginNames == {"shibauth", "logger", "protectedcorporadb"}

\* Whether a plugin defines filter_result: ShibbolethAuthorizer (shibauth,
\* lines 30-35) and KorpLogger (logger, lines 268-278) do,
\* ProtectedCorporaDatabase does not
ImplementsFilterResult(plugin) == plugin \in {"shibauth", "logger"}

\* filter_result of a plugin on the value it is passed: what it returns,
\* whether it raises, and the result it logs.  KorpLogger.filter_result
\* logs the result and has no return statement; both plugins raise
\* TypeError when they index or search None.
PluginFilterResult(plugin, value, request, username) ==
    IF plugin = "shibauth"
    THEN IF value.isNone
         THEN [value |-> value, raised |-> request.endpoint = "authenticate",
               logged |-> <<>>]
         ELSE [value |-> Some(ShibFilterResult(value.dict, request, username)),
               raised |-> FALSE, logged |-> <<>>]
    ELSE IF value.isNone
         THEN [value |-> value, raised |-> TRUE, logged |-> <<>>]
         ELSE [value |-> NoneValue, raised |-> FALSE, logged |-> <<value>>]

\* The plugins loaded, in the order of their registration: each plugin at
\* most once
RECURSIVE PluginOrders(_)
PluginOrders(names) ==
    {<<>>} \cup UNION {{<<n>> \o rest : rest \in PluginOrders(names \ {n})} :
                          n \in names}

InitPipeline ==
    /\ pipeline = NoPipeline
    /\ authDb = CHOOSE db \in Databases : TRUE
    /\ authReq = NoAuthReq
    /\ authRes = NoResult
    /\ connection = 0
    /\ openConns = {}
    /\ connects = 0
    /\ persistent = TRUE
    /\ pcReq = NoPcReq
    /\ pcRes = NoPcResult
    /\ idemReq = NoIdemReq
    /\ idemRes1 = NoResult
    /\ idemRes2 = NoResult
    /\ shibEnv = NoShibEnv
    /\ shibIn = NoPostdata
    /\ shibOut = NoShibOut
    /\ threads = NoThreads
    /\ requests = NoRequests
    /\ loggers = EmptyDict
    /\ logdata = EmptyDict
    /\ usernames = EmptyDict
    /\ payload = NoPayload
    /\ levels = NoLevels
    /\ conf = NoConf
    /\ authLog = NoAuthLog

\* The mount point filter_result is reached for a request whose
\* filter_auth_postdata has saved a username: value = value0
StartDispatch ==
    /\ ~pipeline.started
    /\ \E plugins \in PluginOrders(PluginNames),
          endpoint \in {"authenticate", "query"},
          value0 \in {EmptyDict, [corpus_hits |-> <<"7">>]} :
          pipeline' = [NoPipeline EXCEPT
              !.started = TRUE, !.plugins = plugins,
              !.request = [NoShibEnv EXCEPT !.endpoint = endpoint],
              !.username = DictOf({<<RequestKey(NoShibEnv), USER_ENV>>}),
              !.value0 = value0, !.value = Some(value0)]
    /\ UNCHANGED <<authVars, pcVars, idemVars, shibVars, concVars, reqVars,
                   payload, levels, conf, authLog>>

\* The next plugin in order: if it implements the mount point,
\* value = plugin.mount(value, context)
DispatchNext ==
    /\ pipeline.started
    /\ ~pipeline.raised
    /\ pipeline.pos < Len(pipeline.plugins)
    /\ LET plugin == pipeline.plugins[pipeline.pos + 1]
           out == PluginFilterResult(plugin, pipeline.value, pipeline.request,
                                     pipeline.username)
       IN IF ImplementsFilterResult(plugin)
          THEN pipeline' = [pipeline EXCEPT
                   !.pos = @ + 1,
                   !.value = out.value,
                   !.raised = out.raised,
                   !.applied = IF out.raised THEN @ ELSE Append(@, plugin),
                   !.logged = @ \o out.logged]
          ELSE pipeline' = [pipeline EXCEPT !.pos = @ + 1]
    /\ UNCHANGED <<authVars, pcVars, idemVars, shibVars, concVars, reqVars,
                   payload, levels, conf, authLog>>

NextPipeline == StartDispatch \/ DispatchNext

SpecPipeline == InitPipeline /\ [][NextPipeline]_vars

\* The mount point has been concluded for all the plugins
Concluded ==
    /\ pipeline.started
    /\ ~pipeline.raised
    /\ pipeline.pos = Len(pipeline.plugins)

\* The place of a plugin in the order of registration, 0 if it is not loaded
PlaceOf(plugin) ==
    IF \E i \in 1..Len(pipeline.plugins) : pipeline.plugins[i] = plugin
    THEN CHOOSE i \in 1..Len(pipeline.plugins) : pipeline.plugins[i] = plugin
    ELSE 0

\* The result as filter_result of ShibbolethAuthorizer is to leave it
ShibFiltered ==
    IF pipeline.request.endpoint = "authenticate"
    THEN [k \in DOMAIN pipeline.value0 \cup {"username"} |->
             IF k = "username" THEN USER_ENV ELSE pipeline.value0[k]]
    ELSE pipeline.value0

=============================================================================
